---- MODULE Spec2Model ----
(***************************************************************************)
(* Model of the Sudoku solver framework of src/src/sudoku.rs and           *)
(* src/src/utils.rs: the topology, the candidate-domain propagation        *)
(* engine (assign / eliminate), the strategies' initialisation and solve   *)
(* operations, and the puzzle parser.                                      *)
(*                                                                         *)
(* A cell name such as "B3" is the two-character string made of a row      *)
(* letter and a column digit.  It is written here as the number            *)
(* 10 * (index of the row letter in "ABCDEFGHI") + (column digit), so      *)
(* "A1" is 1, "B3" is 13 and "I9" is 89.                                   *)
(*                                                                         *)
(* Loops and the assign/eliminate mutual recursion are written as step     *)
(* functions over an explicit control state and run to completion by       *)
(* repeated doubling, so that the depth of evaluation stays logarithmic    *)
(* in the number of loop iterations.                                       *)
(***************************************************************************)
EXTENDS Integers, Sequences, FiniteSets, TLC

VARIABLES
    puzzle,                 \* the string handed to Sudoku::new
    board,                  \* Sudoku.board
    candidates,             \* Sudoku.candidates
    queue,                  \* CSPSolver.queue
    cells_with_candidates,  \* RuleBasedSolver.cells_with_candidates
    counter,                \* StochasticSolver.counter
    temperature,            \* StochasticSolver.temperature
    temperature_start,      \* StochasticSolver.temperature_start
    score,                  \* the local score of StochasticSolver::solve
    cascade,                \* the assign / eliminate call in progress
    pc,                     \* where the caller of the strategy contract stands
    nops,                   \* operations applied since initialisation
    last                    \* the last operation applied and what it returned

vars == <<puzzle, board, candidates, queue, cells_with_candidates, counter,
          temperature, temperature_start, score, cascade, pc, nops, last>>

-----------------------------------------------------------------------------
(* Program constants *)

N == 9
BoxN == 3
StrLen == 81

Digits == 1..N

(* Iteration order of a HashSet is unspecified; an operation is run under  *)
(* one of these orders (ascending or descending element order).            *)
Orders == {"asc", "desc"}

Range(s) == {s[i] : i \in DOMAIN s}
Min(S) == CHOOSE x \in S : \A y \in S : x <= y
Max(S) == CHOOSE x \in S : \A y \in S : x >= y

SeqOf(S, ord) ==
    LET n == Cardinality(S)
    IN  [k \in 1..n |-> CHOOSE x \in S :
            IF ord = "asc" THEN Cardinality({y \in S : y < x}) = k - 1
                           ELSE Cardinality({y \in S : y > x}) = k - 1]

-----------------------------------------------------------------------------
(* utils.rs *)

fmt(a, b) == a * 10 + b

cross(A, B) ==
    [i \in 1..(Len(A) * Len(B)) |->
        fmt(A[((i - 1) \div Len(B)) + 1], B[((i - 1) % Len(B)) + 1])]

coords_to_cell(row, col) == fmt(row, col + 1)

cell_to_coords(cell) == <<cell \div 10, (cell % 10) - 1>>

-----------------------------------------------------------------------------
(* Sudoku::new: the topology *)

rows == [i \in 1..N |-> i - 1]
cols == [i \in 1..N |-> i]
cells == cross(rows, cols)
Cells == Range(cells)

unitlist ==
    [i \in 1..N |-> cross(rows, <<cols[i]>>)]
    \o [i \in 1..N |-> cross(<<rows[i]>>, cols)]
    \o [i \in 1..N |->
          cross(SubSeq(rows, BoxN * ((i - 1) \div BoxN) + 1, BoxN * ((i - 1) \div BoxN) + BoxN),
                SubSeq(cols, BoxN * ((i - 1) % BoxN) + 1, BoxN * ((i - 1) % BoxN) + BoxN))]

units ==
    [s \in Cells |->
        {Range(unitlist[i]) : i \in {j \in DOMAIN unitlist : s \in Range(unitlist[j])}}]

row_peers ==
    [s \in Cells |-> {s2 \in UNION units[s] : s2 # s /\ s2 \div 10 = s \div 10}]

col_peers ==
    [s \in Cells |-> {s2 \in UNION units[s] : s2 # s /\ s2 % 10 = s % 10}]

box_peers ==
    [s \in Cells |->
        {s2 \in UNION units[s] :
            /\ s2 # s
            /\ cell_to_coords(s)[1] \div BoxN = cell_to_coords(s2)[1] \div BoxN
            /\ cell_to_coords(s)[2] \div BoxN = cell_to_coords(s2)[2] \div BoxN}]

(* a peer map that leaves the cell itself among its peers *)
peers_with_self == [s \in Cells |-> UNION units[s]]

peers == [s \in Cells |-> (UNION units[s]) \ {s}]

(* The order in which the elements of peers[s] are visited, per order.     *)
PeerSeq == [ord \in Orders |-> [s \in Cells |-> SeqOf(peers[s], ord)]]

(* vec![row_peers[cell], col_peers[cell], box_peers[cell]]                 *)
UnitsOf == [s \in Cells |-> <<row_peers[s], col_peers[s], box_peers[s]>>]

-----------------------------------------------------------------------------
(* Sudoku::from_string.  A string is a sequence of characters; s.len() is  *)
(* its length in bytes and s.chars().nth(k) its k-th character.            *)

(* "e-acute" stands for the two-byte character U+00E9 *)
Utf8Len(c) == IF c = "e-acute" THEN 2 ELSE 1

RECURSIVE ByteLen(_)
ByteLen(s) == IF s = <<>> THEN 0 ELSE Utf8Len(Head(s)) + ByteLen(Tail(s))

DigitChars == <<"0", "1", "2", "3", "4", "5", "6", "7", "8", "9">>

(* a to_digit that reads every character that is not a digit as 0 *)
to_digit_lenient(c) ==
    IF \E i \in DOMAIN DigitChars : DigitChars[i] = c
    THEN (CHOOSE i \in DOMAIN DigitChars : DigitChars[i] = c) - 1
    ELSE 0

(* char::to_digit(10): the digit's value, or -1 for None *)
to_digit(c) ==
    IF \E i \in DOMAIN DigitChars : DigitChars[i] = c
    THEN (CHOOSE i \in DOMAIN DigitChars : DigitChars[i] = c) - 1
    ELSE -1

EmptyGrid == [row \in 0..(N - 1) |-> [col \in 0..(N - 1) |-> 0]]

(* The value of one character: 0 for '.', the digit, -1 when the          *)
(* character is rejected, -2 when the string has no k-th character         *)
(* (nth returns None and unwrap panics).                                   *)
CharValue(s, k) ==
    IF k + 1 > Len(s) THEN -2
    ELSE IF s[k + 1] = "." THEN 0
    ELSE to_digit(s[k + 1])

from_string(s) ==
    IF ByteLen(s) # StrLen
    THEN [res |-> "err", msg |-> "Input string must be 81 characters long.", grid |-> EmptyGrid]
    ELSE LET bad == {k \in 0..(StrLen - 1) : CharValue(s, k) < 0 \/ CharValue(s, k) > 9}
         IN  IF bad = {}
             THEN [res |-> "ok", msg |-> "",
                   grid |-> [row \in 0..(N - 1) |-> [col \in 0..(N - 1) |-> CharValue(s, 9 * row + col)]]]
             ELSE IF CharValue(s, Min(bad)) = -2
             THEN [res |-> "panic", msg |-> "unwrap on None", grid |-> EmptyGrid]
             ELSE IF CharValue(s, Min(bad)) = -1
             THEN [res |-> "err", msg |-> "Each character must be a digit from 0 to 9 or a dot.", grid |-> EmptyGrid]
             ELSE [res |-> "err", msg |-> "Each digit must be from 0 to 9.", grid |-> EmptyGrid]

(* Sudoku::new(puzzle): None gives the empty board *)
NoPuzzle == <<"None">>

new(p) ==
    IF p = NoPuzzle THEN [res |-> "ok", msg |-> "", grid |-> EmptyGrid]
    ELSE from_string(p)

-----------------------------------------------------------------------------
(* The propagation engine: Sudoku::assign and Sudoku::eliminate.           *)
(* A machine state m holds the candidate map, the stack of active calls    *)
(* and the value returned by the call that ended last.  An "assign" frame  *)
(* keeps the digits of other_values still to eliminate; an "elim" frame    *)
(* keeps the work list `tasks`, the set `processed`, and, while the three  *)
(* units of the current task are examined, the index u of the next unit.   *)

NoFrame ==
    [f |-> "none", cell |-> 0, digit |-> 0, ds |-> <<>>, tasks |-> <<>>,
     processed |-> {}, u |-> 0]

AssignFrame(cand, cell, digit, ord) ==
    [NoFrame EXCEPT !.f = "assign", !.cell = cell, !.digit = digit,
                    !.ds = SeqOf(cand[cell] \ {digit}, ord)]

ElimFrame(cell, digit) ==
    [NoFrame EXCEPT !.f = "elim", !.tasks = <<<<cell, digit>>>>]

Pop(stack) == SubSeq(stack, 1, Len(stack) - 1)
SetTop(stack, fr) == [stack EXCEPT ![Len(stack)] = fr]

(* for d2 in other_values { if !self.eliminate(cell, d2) { return false } } true *)
AssignStep(m, top) ==
    IF m.ret = "false" THEN [m EXCEPT !.stack = Pop(m.stack)]
    ELSE IF top.ds = <<>> THEN [m EXCEPT !.stack = Pop(m.stack), !.ret = "true"]
    ELSE [m EXCEPT !.stack = Append(SetTop(m.stack, [top EXCEPT !.ds = Tail(top.ds)]),
                                    ElimFrame(top.cell, Head(top.ds))),
                   !.ret = "none"]

(* a removal that leaves the cell with every other digit *)
ResetCandidate(cand, cell, digit) == [cand EXCEPT ![cell] = Digits \ {digit}]

(* The candidate map after the removal guarded by `len() > 1`.             *)
RemoveCandidate(cand, cell, digit) ==
    IF Cardinality(cand[cell]) > 1 THEN [cand EXCEPT ![cell] = @ \ {digit}] ELSE cand

(* the work-list step that sends the removed digit, not the remaining    *)
(* one, to the peers of a cell left with one candidate                   *)
ElimPopStepRemoved(m, top) ==
    IF top.tasks = <<>> THEN [m EXCEPT !.stack = Pop(m.stack), !.ret = "true"]
    ELSE
    LET task == top.tasks[Len(top.tasks)]
        rest == SubSeq(top.tasks, 1, Len(top.tasks) - 1)
        cell == task[1]
        digit == task[2]
        c1 == RemoveCandidate(m.cand, cell, digit)
    IN  IF task \in top.processed
        THEN [m EXCEPT !.stack = SetTop(m.stack, [top EXCEPT !.tasks = rest])]
        ELSE IF digit \notin m.cand[cell]
        THEN [m EXCEPT !.stack = SetTop(m.stack,
                  [top EXCEPT !.tasks = rest, !.processed = @ \cup {task}])]
        ELSE IF c1[cell] = {}
        THEN [m EXCEPT !.cand = c1, !.stack = Pop(m.stack), !.ret = "false"]
        ELSE [m EXCEPT
                !.cand = c1,
                !.stack = SetTop(m.stack,
                    [top EXCEPT
                        !.tasks = IF Cardinality(c1[cell]) = 1
                                  THEN rest \o [k \in 1..Len(PeerSeq[m.ord][cell]) |->
                                           <<PeerSeq[m.ord][cell][k], digit>>]
                                  ELSE rest,
                        !.processed = @ \cup {task},
                        !.cell = cell, !.digit = digit, !.u = 1])]

(* the work-list loop that looks at the last task without taking it off  *)
(* the list when the task was already processed                          *)
ElimPopStepNoPop(m, top) ==
    IF top.tasks = <<>> THEN [m EXCEPT !.stack = Pop(m.stack), !.ret = "true"]
    ELSE
    LET task == top.tasks[Len(top.tasks)]
        rest == SubSeq(top.tasks, 1, Len(top.tasks) - 1)
        cell == task[1]
        digit == task[2]
        c1 == RemoveCandidate(m.cand, cell, digit)
    IN  IF task \in top.processed
        THEN m
        ELSE IF digit \notin m.cand[cell]
        THEN [m EXCEPT !.stack = SetTop(m.stack,
                  [top EXCEPT !.tasks = rest, !.processed = @ \cup {task}])]
        ELSE IF c1[cell] = {}
        THEN [m EXCEPT !.cand = c1, !.stack = Pop(m.stack), !.ret = "false"]
        ELSE [m EXCEPT
                !.cand = c1,
                !.stack = SetTop(m.stack,
                    [top EXCEPT
                        !.tasks = IF Cardinality(c1[cell]) = 1
                                  THEN rest \o [k \in 1..Len(PeerSeq[m.ord][cell]) |->
                                           <<PeerSeq[m.ord][cell][k], CHOOSE d2 \in c1[cell] : TRUE>>]
                                  ELSE rest,
                        !.processed = @ \cup {task},
                        !.cell = cell, !.digit = digit, !.u = 1])]

(* while let Some(task) = tasks.pop() { ... }: one task taken off the list *)
ElimPopStep(m, top) ==
    IF top.tasks = <<>> THEN [m EXCEPT !.stack = Pop(m.stack), !.ret = "true"]
    ELSE
    LET task == top.tasks[Len(top.tasks)]
        rest == SubSeq(top.tasks, 1, Len(top.tasks) - 1)
        cell == task[1]
        digit == task[2]
        c1 == RemoveCandidate(m.cand, cell, digit)
    IN  IF task \in top.processed
        THEN [m EXCEPT !.stack = SetTop(m.stack, [top EXCEPT !.tasks = rest])]
        ELSE IF digit \notin m.cand[cell]
        THEN [m EXCEPT !.stack = SetTop(m.stack,
                  [top EXCEPT !.tasks = rest, !.processed = @ \cup {task}])]
        ELSE IF c1[cell] = {}
        THEN [m EXCEPT !.cand = c1, !.stack = Pop(m.stack), !.ret = "false"]
        ELSE [m EXCEPT
                !.cand = c1,
                !.stack = SetTop(m.stack,
                    [top EXCEPT
                        !.tasks = IF Cardinality(c1[cell]) = 1
                                  THEN rest \o [k \in 1..Len(PeerSeq[m.ord][cell]) |->
                                           <<PeerSeq[m.ord][cell][k], CHOOSE d2 \in c1[cell] : TRUE>>]
                                  ELSE rest,
                        !.processed = @ \cup {task},
                        !.cell = cell, !.digit = digit, !.u = 1])]

(* the unit loop without the assign to a digit's only place *)
ElimUnitStepNoAssign(m, top) ==
    IF m.ret = "false" THEN [m EXCEPT !.stack = Pop(m.stack)]
    ELSE IF top.u > 3
    THEN [m EXCEPT !.stack = SetTop(m.stack, [top EXCEPT !.u = 0]), !.ret = "none"]
    ELSE IF {s \in UnitsOf[top.cell][top.u] : top.digit \in m.cand[s]} = {}
    THEN [m EXCEPT !.stack = Pop(m.stack), !.ret = "false"]
    ELSE [m EXCEPT !.stack = SetTop(m.stack, [top EXCEPT !.u = @ + 1]), !.ret = "none"]

(* for unit in units.iter() { d_places ...}: unit number top.u of the task *)
ElimUnitStep(m, top) ==
    IF m.ret = "false" THEN [m EXCEPT !.stack = Pop(m.stack)]
    ELSE IF top.u > 3
    THEN [m EXCEPT !.stack = SetTop(m.stack, [top EXCEPT !.u = 0]), !.ret = "none"]
    ELSE
    LET d_places == {s \in UnitsOf[top.cell][top.u] : top.digit \in m.cand[s]}
        nxt == SetTop(m.stack, [top EXCEPT !.u = @ + 1])
    IN  IF d_places = {} THEN [m EXCEPT !.stack = Pop(m.stack), !.ret = "false"]
        ELSE IF Cardinality(d_places) = 1
        THEN [m EXCEPT
                !.stack = Append(nxt,
                    AssignFrame(m.cand, CHOOSE s \in d_places : TRUE, top.digit, m.ord)),
                !.ret = "none"]
        ELSE [m EXCEPT !.stack = nxt, !.ret = "none"]

PropStep(m) ==
    LET top == m.stack[Len(m.stack)]
    IN  IF m.stack = <<>> THEN m
        ELSE IF top.f = "assign" THEN AssignStep(m, top)
        ELSE IF top.u = 0 THEN ElimPopStep(m, top)
        ELSE ElimUnitStep(m, top)

(* Runs of the machine: PropRun makes 2^k steps and stops early once the   *)
(* outermost call has returned; PropFinish runs until it has.              *)
RunLog == 12

RECURSIVE PropRun(_, _)
PropRunOn(h, k) == IF h.stack = <<>> THEN h ELSE PropRun(h, k)

PropRun(m, k) == IF k = 0 THEN PropStep(m) ELSE PropRunOn(PropRun(m, k - 1), k - 1)

RECURSIVE PropFinish(_, _)
PropFinishOn(h, k) == IF h.stack = <<>> THEN h ELSE PropFinish(h, k + 1)

PropFinish(m, k) == PropFinishOn(PropRun(m, k), k)

PropResult(m) == [ok |-> m.ret = "true", cand |-> m.cand]

assign(cand, cell, digit, ord) ==
    PropResult(PropFinish([cand |-> cand, stack |-> <<AssignFrame(cand, cell, digit, ord)>>,
                           ret |-> "none", ord |-> ord], RunLog))

eliminate(cand, cell, digit, ord) ==
    PropResult(PropFinish([cand |-> cand, stack |-> <<ElimFrame(cell, digit)>>,
                           ret |-> "none", ord |-> ord], RunLog))

-----------------------------------------------------------------------------
(* Initialisation of the candidate domains *)

AllCandidates == [s \in Cells |-> Digits] @@ <<>>

BoardAt(b, cell) == b[cell_to_coords(cell)[1]][cell_to_coords(cell)[2]]

(* One given of initialize_candidates_lw: the cell keeps the digit alone,  *)
(* every peer loses it.                                                    *)
LwGiven(cand, cell, digit) ==
    [s \in Cells |->
        IF s = cell THEN {digit}
        ELSE IF s \in peers[cell] THEN cand[s] \ {digit}
        ELSE cand[s]] @@ <<>>

(* The loop over the board in row-major order, k being the index of the    *)
(* next cell in `cells`.                                                   *)
LwStep(st, b) ==
    IF st.k > Len(cells) THEN st
    ELSE [k |-> st.k + 1,
          cand |-> IF BoardAt(b, cells[st.k]) # 0
                   THEN LwGiven(st.cand, cells[st.k], BoardAt(b, cells[st.k]))
                   ELSE st.cand]

HeavyStep(st, b, ord) ==
    IF st.k > Len(cells) THEN st
    ELSE [k |-> st.k + 1,
          cand |-> IF BoardAt(b, cells[st.k]) # 0
                   THEN assign(st.cand, cells[st.k], BoardAt(b, cells[st.k]), ord).cand
                   ELSE st.cand]

BoardLog == 7

RECURSIVE LwRun(_, _, _)
LwRunOn(h, b, k) == IF h.k > Len(cells) THEN h ELSE LwRun(h, b, k)

LwRun(st, b, k) == IF k = 0 THEN LwStep(st, b) ELSE LwRunOn(LwRun(st, b, k - 1), b, k - 1)

RECURSIVE HeavyRun(_, _, _, _)
HeavyRunOn(h, b, ord, k) == IF h.k > Len(cells) THEN h ELSE HeavyRun(h, b, ord, k)

HeavyRun(st, b, ord, k) ==
    IF k = 0 THEN HeavyStep(st, b, ord) ELSE HeavyRunOn(HeavyRun(st, b, ord, k - 1), b, ord, k - 1)

initialize_candidates_lw(b) == LwRun([k |-> 1, cand |-> AllCandidates], b, BoardLog).cand

initialize_candidates_heavy(b, ord) ==
    HeavyRun([k |-> 1, cand |-> AllCandidates], b, ord, BoardLog).cand

-----------------------------------------------------------------------------
(* Input puzzles.  A puzzle is written as its set of givens <<cell, digit>>*)
(* and turned into the 81-character string Sudoku::new receives.           *)

StringIndex(cell) == 9 * cell_to_coords(cell)[1] + cell_to_coords(cell)[2] + 1

PuzzleString(givens) ==
    [i \in 1..StrLen |->
        IF \E g \in givens : StringIndex(g[1]) = i
        THEN DigitChars[(CHOOSE g \in givens : StringIndex(g[1]) = i)[2] + 1]
        ELSE "."]

(* the empty puzzle *)
PuzzleEmpty == PuzzleString({})

(* A1 is left with the single candidate 9 by givens spread over its row,   *)
(* its column and its box; no unit of A1 is otherwise constrained.         *)
PuzzleNaked ==
    PuzzleString({<<4, 1>>, <<5, 2>>, <<6, 3>>, <<31, 4>>, <<41, 5>>, <<51, 6>>,
                  <<12, 7>>, <<23, 8>>})

(* the digit 3 twice in row A *)
PuzzleDupRow == PuzzleString({<<1, 3>>, <<2, 3>>})

(* 9 can go to A1 and A2 only, in row A and in the first box *)
PuzzleTwoPlaces == PuzzleString({<<14, 9>>, <<27, 9>>, <<33, 9>>})

(* 3 can go to A1 only in row A *)
PuzzleOnePlace == PuzzleString({<<14, 3>>, <<27, 3>>, <<32, 3>>, <<63, 3>>})

PropPuzzles == {PuzzleEmpty, PuzzleNaked, PuzzleDupRow, PuzzleTwoPlaces, PuzzleOnePlace}

(* cells and digits the propagation operations are called with *)
OpCells == {1, 2, 9}
OpDigits == {3, 9}

(* number of assign / eliminate calls after initialisation *)
MaxOps == 2

-----------------------------------------------------------------------------
(* The state after Sudoku::new and the construction of the solvers *)

(* no assign / eliminate call in progress *)
NoCascade == [stack |-> <<>>, ret |-> "none", ord |-> "asc", removed |-> 0, size0 |-> 0]

NoOp ==
    [op |-> "new", cell |-> 0, digit |-> 0, ret |-> "unit", dom |-> {}, ignored |-> FALSE]

Constructed(p) ==
    /\ puzzle = p
    /\ board = new(p).grid
    /\ candidates = <<>>
    /\ queue = <<>>
    /\ cells_with_candidates = <<>>
    /\ counter = 0
    /\ temperature = 0
    /\ temperature_start = 0
    /\ score = 0
    /\ cascade = NoCascade
    /\ pc = "new"
    /\ nops = 0
    /\ last = NoOp

Bool(b) == IF b THEN "true" ELSE "false"

-----------------------------------------------------------------------------
(* Propagation: initialisation followed by assign and eliminate calls *)

InitProp == \E p \in PropPuzzles : Constructed(p)

InitLw ==
    /\ pc = "new"
    /\ candidates' = initialize_candidates_lw(board)
    /\ pc' = "ready"
    /\ last' = [NoOp EXCEPT !.op = "initialize_candidates_lw"]
    /\ UNCHANGED <<puzzle, board, queue, cells_with_candidates, counter, temperature,
                   temperature_start, score, nops, cascade>>

InitHeavy ==
    /\ pc = "new"
    /\ \E ord \in Orders : candidates' = initialize_candidates_heavy(board, ord)
    /\ pc' = "ready"
    /\ last' = [NoOp EXCEPT !.op = "initialize_candidates_heavy"]
    /\ UNCHANGED <<puzzle, board, queue, cells_with_candidates, counter, temperature,
                   temperature_start, score, nops, cascade>>

DoAssign ==
    /\ pc = "ready"
    /\ nops < MaxOps
    /\ \E cell \in OpCells, digit \in OpDigits, ord \in Orders :
         LET r == assign(candidates, cell, digit, ord)
         IN  /\ candidates' = r.cand
             /\ last' = [NoOp EXCEPT !.op = "assign", !.cell = cell, !.digit = digit,
                                     !.ret = Bool(r.ok), !.dom = candidates[cell]]
    /\ nops' = nops + 1
    /\ UNCHANGED <<puzzle, board, queue, cells_with_candidates, counter, temperature,
                   temperature_start, score, pc, cascade>>

DoEliminate ==
    /\ pc = "ready"
    /\ nops < MaxOps
    /\ \E cell \in OpCells, digit \in OpDigits, ord \in Orders :
         LET r == eliminate(candidates, cell, digit, ord)
         IN  /\ candidates' = r.cand
             /\ last' = [NoOp EXCEPT !.op = "eliminate", !.cell = cell, !.digit = digit,
                                     !.ret = Bool(r.ok), !.dom = candidates[cell]]
    /\ nops' = nops + 1
    /\ UNCHANGED <<puzzle, board, queue, cells_with_candidates, counter, temperature,
                   temperature_start, score, pc, cascade>>

NextProp == InitLw \/ InitHeavy \/ DoAssign \/ DoEliminate

SpecProp == InitProp /\ [][NextProp]_vars

-----------------------------------------------------------------------------
(* Claims about the propagation engine, under SpecProp *)

(* C1: whenever assign(c, d) returns success, the domain of c is exactly   *)
(* {d} immediately afterwards, also when d was not a candidate of c on     *)
(* entry.                                                                  *)
C1_AssignSuccessLeavesSingleton ==
    (last.op = "assign" /\ last.ret = "true") => candidates[last.cell] = {last.digit}

(* C2: eliminate(c, d) called when the domain of c is exactly {d} returns  *)
(* failure, whatever the domains of the other cells are.                   *)
C2_EliminateLastCandidateFails ==
    (last.op = "eliminate" /\ last.dom = {last.digit}) => last.ret = "false"

(* C8: after initialisation and after every assign / eliminate, no cell    *)
(* has an empty domain unless the operation that produced the state        *)
(* reported failure.                                                       *)
C8_NoSilentEmptyDomain ==
    (pc = "ready" /\ last.ret # "false") => \A s \in Cells : candidates[s] # {}

-----------------------------------------------------------------------------
(* Checks on the board grid *)

(* an is_valid that looks at the row and the column but not at the box *)
is_valid_no_box(b, row, col, num) ==
    /\ b[row][col] = 0
    /\ \A i \in 0..(N - 1) : b[row][i] # num
    /\ \A i \in 0..(N - 1) : b[i][col] # num

(* Sudoku::is_valid *)
is_valid(b, row, col, num) ==
    /\ b[row][col] = 0
    /\ \A i \in 0..(N - 1) : b[row][i] # num
    /\ \A i \in 0..(N - 1) : b[i][col] # num
    /\ \A i \in (row - (row % 3))..(row - (row % 3) + 2) :
         \A j \in (col - (col % 3))..(col - (col % 3) + 2) : b[i][j] # num

(* Sudoku::board_correct: no digit twice among the non-zero entries of a   *)
(* row, a column or a box.                                                 *)
board_correct(b) ==
    \A i \in 0..(N - 1) : \A j, k \in 0..(N - 1) :
        j < k =>
          /\ ~(b[i][j] # 0 /\ b[i][j] = b[i][k])
          /\ ~(b[j][i] # 0 /\ b[j][i] = b[k][i])
          /\ ~(/\ b[3 * (i \div 3) + (j \div 3)][3 * (i % 3) + (j % 3)] # 0
               /\ b[3 * (i \div 3) + (j \div 3)][3 * (i % 3) + (j % 3)]
                    = b[3 * (i \div 3) + (k \div 3)][3 * (i % 3) + (k % 3)])

(* Sudoku::candidates_correct: copy every singleton domain into the grid,  *)
(* then board_correct.                                                     *)
CandidatesBoard(b, cand) ==
    [row \in 0..(N - 1) |-> [col \in 0..(N - 1) |->
        IF Cardinality(cand[coords_to_cell(row, col)]) = 1
        THEN CHOOSE d \in cand[coords_to_cell(row, col)] : TRUE
        ELSE b[row][col]]]

candidates_correct(b, cand) == board_correct(CandidatesBoard(b, cand))

-----------------------------------------------------------------------------
(* BruteForceSolver::solve.  The recursion is kept as a stack of frames,   *)
(* one per active call, holding the cell chosen by the call and the        *)
(* candidates it has still to try.                                         *)

(* the scan with `<=` for `<`: the last cell with the fewest candidates *)
cell_to_fill_last(b, cand) ==
    LET zero == {k \in 1..Len(cells) : BoardAt(b, cells[k]) = 0}
        fewest == Min({Cardinality(cand[cells[k]]) : k \in zero})
    IN  IF zero = {} THEN 0
        ELSE Max({k \in zero : Cardinality(cand[cells[k]]) = fewest})

(* the scan for cell_to_fill: index in `cells` of the first cell, in       *)
(* row-major order, with the fewest candidates among the cells that are 0; *)
(* 0 for None                                                              *)
cell_to_fill(b, cand) ==
    LET zero == {k \in 1..Len(cells) : BoardAt(b, cells[k]) = 0}
        fewest == Min({Cardinality(cand[cells[k]]) : k \in zero})
    IN  IF zero = {} THEN 0
        ELSE Min({k \in zero : Cardinality(cand[cells[k]]) = fewest})

SetBoard(b, cell, v) ==
    [b EXCEPT ![cell_to_coords(cell)[1]][cell_to_coords(cell)[2]] = v]

(* the search that leaves a placement in the grid when the recursive call *)
(* has failed                                                             *)
BruteStepNoUndo(m) ==
    LET top == m.stack[Len(m.stack)]
        k == cell_to_fill(m.board, m.cand)
    IN
    IF m.mode = "call" THEN
        IF k = 0 THEN [m EXCEPT !.mode = "return", !.ret = "true"]
        ELSE [m EXCEPT !.mode = "loop",
                       !.stack = Append(@, [cell |-> cells[k], ds |-> SeqOf(m.cand[cells[k]], m.ord)])]
    ELSE IF m.mode = "loop" THEN
        IF top.ds = <<>>
        THEN [m EXCEPT !.mode = "return", !.ret = "false", !.stack = Pop(@)]
        ELSE IF is_valid(m.board, cell_to_coords(top.cell)[1], cell_to_coords(top.cell)[2], Head(top.ds))
        THEN [m EXCEPT !.mode = "call",
                       !.board = SetBoard(@, top.cell, Head(top.ds)),
                       !.stack = SetTop(@, [top EXCEPT !.ds = Tail(@)])]
        ELSE [m EXCEPT !.stack = SetTop(@, [top EXCEPT !.ds = Tail(@)])]
    ELSE IF m.stack = <<>> THEN m
    ELSE IF m.ret = "true" THEN [m EXCEPT !.stack = Pop(@)]
    ELSE [m EXCEPT !.mode = "loop"]

BruteStep(m) ==
    LET top == m.stack[Len(m.stack)]
        k == cell_to_fill(m.board, m.cand)
    IN
    IF m.mode = "call" THEN
        IF k = 0 THEN [m EXCEPT !.mode = "return", !.ret = "true"]
        ELSE [m EXCEPT !.mode = "loop",
                       !.stack = Append(@, [cell |-> cells[k], ds |-> SeqOf(m.cand[cells[k]], m.ord)])]
    ELSE IF m.mode = "loop" THEN
        IF top.ds = <<>>
        THEN [m EXCEPT !.mode = "return", !.ret = "false", !.stack = Pop(@)]
        ELSE IF is_valid(m.board, cell_to_coords(top.cell)[1], cell_to_coords(top.cell)[2], Head(top.ds))
        THEN [m EXCEPT !.mode = "call",
                       !.board = SetBoard(@, top.cell, Head(top.ds)),
                       !.stack = SetTop(@, [top EXCEPT !.ds = Tail(@)])]
        ELSE [m EXCEPT !.stack = SetTop(@, [top EXCEPT !.ds = Tail(@)])]
    ELSE IF m.stack = <<>> THEN m
    ELSE IF m.ret = "true" THEN [m EXCEPT !.stack = Pop(@)]
    ELSE [m EXCEPT !.mode = "loop", !.board = SetBoard(@, top.cell, 0)]

BruteDone(m) == m.mode = "return" /\ m.stack = <<>>

SearchLog == 12

RECURSIVE BruteRun(_, _)
BruteRunOn(h, k) == IF BruteDone(h) THEN h ELSE BruteRun(h, k)

BruteRun(m, k) == IF k = 0 THEN BruteStep(m) ELSE BruteRunOn(BruteRun(m, k - 1), k - 1)

RECURSIVE BruteFinish(_, _)
BruteFinishOn(h, k) == IF BruteDone(h) THEN h ELSE BruteFinish(h, k + 1)

BruteFinish(m, k) == BruteFinishOn(BruteRun(m, k), k)

BruteForceSolve(b, cand, ord) ==
    BruteFinish([board |-> b, cand |-> cand, ord |-> ord, stack |-> <<>>,
                 mode |-> "call", ret |-> "none"], SearchLog)

-----------------------------------------------------------------------------
(* Parsing: Sudoku::new on strings that may be malformed.  The strings are *)
(* a well-formed puzzle with one character replaced, and strings that are  *)
(* too short or too long.                                                  *)

ParseAlphabet == {"0", "7", ".", "x", "a", " ", "e-acute"}
ParsePositions == 1..StrLen

ParseBase == PuzzleNaked

ParseInputs ==
    {[ParseBase EXCEPT ![i] = c] : i \in ParsePositions, c \in ParseAlphabet}
    \cup {SubSeq(ParseBase, 1, n) : n \in {0, 1, 80}}
    \cup {ParseBase \o <<c>> : c \in ParseAlphabet}
    \cup {SubSeq(ParseBase, 1, n) \o <<"e-acute">> : n \in {79, 80}}
    \cup {SubSeq(ParseBase, 1, 78) \o <<"e-acute", "e-acute">>}
    \cup {NoPuzzle}

(* the caller holds a string and has not yet called Sudoku::new; there is  *)
(* no Sudoku value, so board is the empty tuple                            *)
InitParse ==
    /\ puzzle \in ParseInputs
    /\ board = <<>>
    /\ candidates = <<>>
    /\ queue = <<>>
    /\ cells_with_candidates = <<>>
    /\ counter = 0
    /\ temperature = 0
    /\ temperature_start = 0
    /\ score = 0
    /\ cascade = NoCascade
    /\ pc = "input"
    /\ nops = 0
    /\ last = NoOp

(* Sudoku::new(Some(puzzle)): Ok(sudoku) or the error of from_string *)
DoNew ==
    /\ pc = "input"
    /\ LET r == new(puzzle)
       IN  /\ board' = IF r.res = "ok" THEN r.grid ELSE <<>>
           /\ pc' = IF r.res = "ok" THEN "new" ELSE "failed"
           /\ last' = [NoOp EXCEPT !.ret = r.res]
    /\ UNCHANGED <<puzzle, candidates, queue, cells_with_candidates, counter,
                   temperature, temperature_start, score, nops, cascade>>

NextParse == DoNew

SpecParse == InitParse /\ [][NextParse]_vars

(* characters a well-formed puzzle string is made of *)
PuzzleChars == {"1", "2", "3", "4", "5", "6", "7", "8", "9", "."}

(* C10: Sudoku::new returns an error value, and never panics, for every    *)
(* string whose length is not 81 or that contains a character other than   *)
(* '1'..'9' or '.'; no board is produced.                                  *)
C10_MalformedRejected ==
    (/\ pc # "input"
     /\ puzzle # NoPuzzle
     /\ (Len(puzzle) # StrLen \/ \E i \in DOMAIN puzzle : puzzle[i] \notin PuzzleChars))
    => (last.ret = "err" /\ board = <<>>)

(* C10 as the code has it: '0' is read as a blank cell, like '.'; an error *)
(* is returned, without panic and without a board, for every string whose  *)
(* length is not 81 or that contains a character other than '0'..'9' or    *)
(* '.'.                                                                    *)
C10_MalformedRejectedZeroBlank ==
    (/\ pc # "input"
     /\ puzzle # NoPuzzle
     /\ (Len(puzzle) # StrLen
         \/ \E i \in DOMAIN puzzle : puzzle[i] \notin (PuzzleChars \cup {"0"})))
    => (last.ret = "err" /\ board = <<>>)

(* a string of 81 characters with a letter in it has been rejected *)
C10_Witness ==
    /\ pc = "failed"
    /\ last.ret = "err"
    /\ Len(puzzle) = StrLen
    /\ \E i \in DOMAIN puzzle : puzzle[i] = "a"

-----------------------------------------------------------------------------
(* RuleBasedSolver: the deduction rules.  A rule works on r = [cand, found,*)
(* panic]: the candidate map, the rule's `found` flag and whether the rule *)
(* has hit one of its panic!() calls, after which nothing more is done;    *)
(* `ignored` records that a nested call returned failure and the rule went *)
(* on regardless.                                                          *)

RuleStart(cand) == [cand |-> cand, found |-> FALSE, panic |-> FALSE, ignored |-> FALSE]

(* what a rule does with the result a of a nested assign / eliminate call: *)
(* panic!() when the call failed, found = true otherwise                   *)
OrPanic(r, a) == [r EXCEPT !.cand = a.cand, !.found = (@ \/ a.ok), !.panic = ~a.ok]

(* the result is dropped and found = true in either case *)
Ignoring(r, a) == [r EXCEPT !.cand = a.cand, !.found = TRUE, !.ignored = (@ \/ ~a.ok)]

(* if !board.assign(cell, digit) { panic!(..) } found = true; *)
AssignOrPanic(r, cell, digit, ord) ==
    IF r.panic THEN r ELSE OrPanic(r, assign(r.cand, cell, digit, ord))

(* if !board.eliminate(cell, digit) { panic!(..) } else { found = true } *)
EliminateOrPanic(r, cell, digit, ord) ==
    IF r.panic THEN r ELSE OrPanic(r, eliminate(r.cand, cell, digit, ord))

(* board.eliminate(cell, digit); found = true; *)
EliminateIgnoring(r, cell, digit, ord) ==
    IF r.panic THEN r ELSE Ignoring(r, eliminate(r.cand, cell, digit, ord))

(* a run of eliminate-or-panic calls, tasks being <<cell, digit>> pairs *)
RECURSIVE EliminateEach(_, _, _)
EliminateEach(r, tasks, ord) ==
    IF tasks = <<>> \/ r.panic THEN r
    ELSE EliminateEach(EliminateOrPanic(r, Head(tasks)[1], Head(tasks)[2], ord), Tail(tasks), ord)

(* the pairs <<a, b>> for a in as (outer loop) and b in bs (inner loop) *)
Pairs(as, bs) ==
    [k \in 1..(Len(as) * Len(bs)) |->
        <<as[((k - 1) \div Len(bs)) + 1], bs[((k - 1) % Len(bs)) + 1]>>]

(* found = true; after a loop that did not panic *)
Found(a) == IF a.panic THEN a ELSE [a EXCEPT !.found = TRUE]

(* naked_single, one cell of the loop over board.cells *)
RECURSIVE NakedSingleDigits(_, _, _, _)
NakedSingleDigits(r, cell, ds, ord) ==
    IF ds = <<>> \/ r.panic THEN r
    ELSE NakedSingleDigits(AssignOrPanic(r, cell, Head(ds), ord), cell, Tail(ds), ord)

NakedSingleCell(r, cell, ord) ==
    IF Cardinality(r.cand[cell]) > 1 THEN r
    ELSE Found(NakedSingleDigits(r, cell, SeqOf(r.cand[cell], ord), ord))

(* not_in_peers *)
not_in_peers(cand, ps, digit) == {peer \in ps : digit \in cand[peer]} = {}

(* hidden_single, one cell of the loop over cells_with_candidates *)
HiddenSingleDigit(r, cell, digit, ord) ==
    IF not_in_peers(r.cand, row_peers[cell], digit) THEN AssignOrPanic(r, cell, digit, ord)
    ELSE IF not_in_peers(r.cand, col_peers[cell], digit) THEN AssignOrPanic(r, cell, digit, ord)
    ELSE IF not_in_peers(r.cand, box_peers[cell], digit) THEN AssignOrPanic(r, cell, digit, ord)
    ELSE r

RECURSIVE HiddenSingleDigits(_, _, _, _)
HiddenSingleDigits(r, cell, ds, ord) ==
    IF ds = <<>> \/ r.panic THEN r
    ELSE HiddenSingleDigits(HiddenSingleDigit(r, cell, Head(ds), ord), cell, Tail(ds), ord)

HiddenSingleCell(r, cell, ord) == HiddenSingleDigits(r, cell, SeqOf(r.cand[cell], ord), ord)

(* naked_pair, one cell: `cands` is the clone of the candidates taken at the cell *)
RECURSIVE NakedPairUnits(_, _, _, _, _)
NakedPairUnits(r, cell, cands, u, ord) ==
    IF u > 3 \/ r.panic THEN r
    ELSE LET unit == UnitsOf[cell][u]
             other_cells == {cell2 \in unit : cell2 # cell /\ r.cand[cell2] = cands}
         IN  NakedPairUnits(
                 IF Cardinality(other_cells) # 1 THEN r
                 ELSE EliminateEach(r, Pairs(SeqOf(unit \ ({cell} \cup other_cells), ord),
                                             SeqOf(cands, ord)), ord),
                 cell, cands, u + 1, ord)

NakedPairCell(r, cell, ord) ==
    IF Cardinality(r.cand[cell]) # 2 THEN r
    ELSE NakedPairUnits(r, cell, r.cand[cell], 1, ord)

(* hidden_pair, one cell *)
HiddenPairUnit(r, cell, cands, digit1, digit2, u, ord) ==
    LET unit == UnitsOf[cell][u]
        other_cells == {cell2 \in unit : digit1 \in r.cand[cell2] \/ digit2 \in r.cand[cell2]}
        other_cell == CHOOSE cell2 \in other_cells : TRUE
        digits == SeqOf((cands \cup r.cand[other_cell]) \ {digit1, digit2}, ord)
    IN  IF Cardinality(other_cells) # 1 THEN r
        ELSE IF digit1 \in r.cand[other_cell] /\ digit2 \in r.cand[other_cell]
        THEN EliminateEach(r, [k \in 1..(2 * Len(digits)) |->
                                  <<IF k % 2 = 1 THEN cell ELSE other_cell,
                                    digits[(k + 1) \div 2]>>], ord)
        ELSE r

RECURSIVE HiddenPairUnits(_, _, _, _, _, _, _)
HiddenPairUnits(r, cell, cands, digit1, digit2, u, ord) ==
    IF u > 3 \/ r.panic THEN r
    ELSE HiddenPairUnits(HiddenPairUnit(r, cell, cands, digit1, digit2, u, ord),
                         cell, cands, digit1, digit2, u + 1, ord)

(* for &digit2 in cands { if digit1 >= digit2 { continue; } ... } *)
RECURSIVE HiddenPairDigit2(_, _, _, _, _, _)
HiddenPairDigit2(r, cell, cands, digit1, ds, ord) ==
    IF ds = <<>> \/ r.panic THEN r
    ELSE HiddenPairDigit2(
             IF digit1 >= Head(ds) THEN r
             ELSE HiddenPairUnits(r, cell, cands, digit1, Head(ds), 1, ord),
             cell, cands, digit1, Tail(ds), ord)

(* for &digit1 in cands *)
RECURSIVE HiddenPairDigit1(_, _, _, _, _)
HiddenPairDigit1(r, cell, cands, ds, ord) ==
    IF ds = <<>> \/ r.panic THEN r
    ELSE HiddenPairDigit1(
             HiddenPairDigit2(r, cell, cands, Head(ds), SeqOf(cands, ord), ord),
             cell, cands, Tail(ds), ord)

HiddenPairCell(r, cell, ord) ==
    HiddenPairDigit1(r, cell, r.cand[cell], SeqOf(r.cand[cell], ord), ord)

(* locked_candidates_type_1: the cells of `unit` visited for one digit     *)
(* when all candidate cells lie in one row; the result of eliminate is     *)
(* dropped                                                                 *)
RECURSIVE LockedRowCells(_, _, _, _, _, _)
LockedRowCells(r, cs, row, candidate_cells, digit, ord) ==
    IF cs = <<>> \/ r.panic THEN r
    ELSE LockedRowCells(
             IF Cardinality(r.cand[Head(cs)]) = 1 THEN r
             ELSE IF /\ Head(cs) \div 10 = row
                     /\ Head(cs) \notin candidate_cells
                     /\ digit \in r.cand[Head(cs)]
             THEN EliminateIgnoring(r, Head(cs), digit, ord)
             ELSE r,
             Tail(cs), row, candidate_cells, digit, ord)

(* the same when they lie in one column; a failed eliminate panics *)
RECURSIVE LockedColCells(_, _, _, _, _, _)
LockedColCells(r, cs, col, candidate_cells, digit, ord) ==
    IF cs = <<>> \/ r.panic THEN r
    ELSE LockedColCells(
             IF Cardinality(r.cand[Head(cs)]) = 1 THEN r
             ELSE IF /\ Head(cs) % 10 = col
                     /\ Head(cs) \notin candidate_cells
                     /\ digit \in r.cand[Head(cs)]
             THEN EliminateOrPanic(r, Head(cs), digit, ord)
             ELSE r,
             Tail(cs), col, candidate_cells, digit, ord)

Locked1Digit(r, unit, digit, ord) ==
    LET candidate_cells == {cell \in unit : digit \in r.cand[cell]}
        rws == {cell \div 10 : cell \in candidate_cells}
        cls == {cell % 10 : cell \in candidate_cells}
    IN  IF candidate_cells = {} THEN r
        ELSE IF Cardinality(rws) = 1
        THEN LockedRowCells(r, SeqOf(unit, ord), CHOOSE x \in rws : TRUE,
                            candidate_cells, digit, ord)
        ELSE IF Cardinality(cls) = 1
        THEN LockedColCells(r, SeqOf(unit, ord), CHOOSE x \in cls : TRUE,
                            candidate_cells, digit, ord)
        ELSE r

RECURSIVE Locked1Digits(_, _, _, _)
Locked1Digits(r, unit, digit, ord) ==
    IF digit > N \/ r.panic THEN r
    ELSE Locked1Digits(Locked1Digit(r, unit, digit, ord), unit, digit + 1, ord)

RECURSIVE Locked1Units(_, _, _, _)
Locked1Units(r, cell, u, ord) ==
    IF u > 3 \/ r.panic THEN r
    ELSE Locked1Units(Locked1Digits(r, UnitsOf[cell][u], 1, ord), cell, u + 1, ord)

Locked1Cell(r, cell, ord) == Locked1Units(r, cell, 1, ord)

(* locked_candidates_type_2: the cells of the box visited for one digit *)
RECURSIVE LockedBoxCells(_, _, _, _, _)
LockedBoxCells(r, cs, candidate_cells, digit, ord) ==
    IF cs = <<>> \/ r.panic THEN r
    ELSE LockedBoxCells(
             IF Cardinality(r.cand[Head(cs)]) = 1 THEN r
             ELSE IF Head(cs) \notin candidate_cells /\ digit \in r.cand[Head(cs)]
             THEN EliminateOrPanic(r, Head(cs), digit, ord)
             ELSE r,
             Tail(cs), candidate_cells, digit, ord)

Locked2Digit(r, unit, digit, ord) ==
    LET candidate_cells == SeqOf({cell \in unit : digit \in r.cand[cell]}, ord)
        ps == box_peers[candidate_cells[1]]
        all_in_same_box == \A k \in 2..Len(candidate_cells) : candidate_cells[k] \in ps
    IN  IF Len(candidate_cells) = 0 THEN r
        ELSE IF ~all_in_same_box THEN r
        ELSE LockedBoxCells(r, SeqOf(ps, ord), Range(candidate_cells), digit, ord)

RECURSIVE Locked2Digits(_, _, _, _)
Locked2Digits(r, unit, digit, ord) ==
    IF digit > N \/ r.panic THEN r
    ELSE Locked2Digits(Locked2Digit(r, unit, digit, ord), unit, digit + 1, ord)

Locked2Cell(r, cell, ord) ==
    Locked2Digits(Locked2Digits(r, row_peers[cell] \cup {cell}, 1, ord),
                  col_peers[cell] \cup {cell}, 1, ord)

(* The loop of a rule over its cells (board.cells for naked_single,        *)
(* cells_with_candidates for the others), i being the index of the next    *)
(* cell.                                                                   *)
RuleCell(rule, r, cell, ord) ==
    CASE rule = "naked_single" -> NakedSingleCell(r, cell, ord)
      [] rule = "hidden_single" -> HiddenSingleCell(r, cell, ord)
      [] rule = "naked_pair" -> NakedPairCell(r, cell, ord)
      [] rule = "hidden_pair" -> HiddenPairCell(r, cell, ord)
      [] rule = "locked_candidates_type_1" -> Locked1Cell(r, cell, ord)
      [] rule = "locked_candidates_type_2" -> Locked2Cell(r, cell, ord)

RuleStep(st, rule, cs, ord) ==
    IF st.i > Len(cs) \/ st.r.panic THEN st
    ELSE [i |-> st.i + 1, r |-> RuleCell(rule, st.r, cs[st.i], ord)]

RuleDone(st, cs) == st.i > Len(cs) \/ st.r.panic

RECURSIVE RuleRun(_, _, _, _, _)
RuleRunOn(h, rule, cs, ord, k) == IF RuleDone(h, cs) THEN h ELSE RuleRun(h, rule, cs, ord, k)

RuleRun(st, rule, cs, ord, k) ==
    IF k = 0 THEN RuleStep(st, rule, cs, ord)
    ELSE RuleRunOn(RuleRun(st, rule, cs, ord, k - 1), rule, cs, ord, k - 1)

ApplyRule(rule, cand, cs, ord) ==
    RuleRun([i |-> 1, r |-> RuleStart(cand)], rule, cs, ord, BoardLog).r

naked_single(cand, ord) == ApplyRule("naked_single", cand, cells, ord)
hidden_single(cand, cwc, ord) == ApplyRule("hidden_single", cand, cwc, ord)
naked_pair(cand, cwc, ord) == ApplyRule("naked_pair", cand, cwc, ord)
hidden_pair(cand, cwc, ord) == ApplyRule("hidden_pair", cand, cwc, ord)
locked_candidates_type_1(cand, cwc, ord) == ApplyRule("locked_candidates_type_1", cand, cwc, ord)
locked_candidates_type_2(cand, cwc, ord) == ApplyRule("locked_candidates_type_2", cand, cwc, ord)

(* apply_basic_rules and apply_intermediate_rules: the rules in turn, the  *)
(* flag `applied` being the disjunction of what they return                *)
RuleNames ==
    <<"naked_single", "hidden_single", "naked_pair", "hidden_pair",
      "locked_candidates_type_1", "locked_candidates_type_2">>

RuleCells(rule, cwc) == IF rule = "naked_single" THEN cells ELSE cwc

(* rule number k applied after the rules before it gave r *)
Applied(r, a) == [a EXCEPT !.found = (@ \/ r.found), !.ignored = (@ \/ r.ignored)]

ThenRule(r, k, cwc, ord) ==
    IF r.panic THEN r
    ELSE Applied(r, ApplyRule(RuleNames[k], r.cand, RuleCells(RuleNames[k], cwc), ord))

apply_basic_rules(cand, cwc, ord) ==
    ThenRule(ThenRule(ThenRule(ThenRule(RuleStart(cand), 1, cwc, ord), 2, cwc, ord),
                      3, cwc, ord), 4, cwc, ord)

apply_intermediate_rules(cand, cwc, ord) ==
    ThenRule(ThenRule(RuleStart(cand), 5, cwc, ord), 6, cwc, ord)

(* board.cells.iter().filter(|cell| board.candidates[*cell].len() > 1) *)
CellsWithCandidates(cand) == SelectSeq(cells, LAMBDA cell : Cardinality(cand[cell]) > 1)

-----------------------------------------------------------------------------
(* CSPSolver *)

(* CSPSolver::solved: every cell has exactly one candidate *)
CSPSolver_solved(cand) == \A cell \in DOMAIN cand : Cardinality(cand[cell]) = 1

(* sort_by_key(|cell| board.candidates[cell].len()), a stable sort: the    *)
(* cells with n candidates, in the order they have in q, for n from k up   *)
RECURSIVE sort_by_key(_, _, _)
sort_by_key(q, cand, k) ==
    IF k > N THEN <<>>
    ELSE SelectSeq(q, LAMBDA cell : Cardinality(cand[cell]) = k) \o sort_by_key(q, cand, k + 1)

(* the queue of CSPSolver::initialize_candidates *)
PriorityQueue(cand) == sort_by_key(CellsWithCandidates(cand), cand, 0)

(* Vec::remove(index), the index counting from 0 *)
RemoveAt(q, index) == SubSeq(q, 1, index) \o SubSeq(q, index + 2, Len(q))

(* CSPSolver::solve as a machine.  mode "while" stands at the test of the  *)
(* outer loop, "cell" at the head of the loop over queue.clone() (qs is    *)
(* what is left of the clone), "digit" at the head of the loop over the    *)
(* clone of the cell's candidates (ds is what is left of it), with the     *)
(* inner `while counter < depth` run one pass per step.  A queue that is   *)
(* empty while some domain is not a singleton leaves the outer loop with   *)
(* nothing to do but count depth up for ever: ret = "diverges".            *)
CSPAfterEliminate(m, e) ==
    IF e.ok THEN [m EXCEPT !.cand = e.cand, !.ds = Tail(@)]
    ELSE [m EXCEPT !.mode = "done", !.ret = "false"]

CSPAfterAssign(m, a) ==
    IF a.ok THEN [m EXCEPT !.cand = a.cand, !.counter = @ + 1]
    ELSE CSPAfterEliminate(m, eliminate(m.cand, m.queue[1], Head(m.ds), m.ord))

CSPStep(m) ==
    IF m.mode = "while" THEN
        IF CSPSolver_solved(m.cand) THEN [m EXCEPT !.mode = "done", !.ret = "true"]
        ELSE IF m.queue = <<>> THEN [m EXCEPT !.mode = "done", !.ret = "diverges"]
        ELSE [m EXCEPT !.mode = "cell", !.counter = 1, !.index = 0, !.qs = m.queue]
    ELSE IF m.mode = "cell" THEN
        IF m.qs = <<>> THEN [m EXCEPT !.mode = "while", !.depth = @ + 1]
        ELSE [m EXCEPT !.mode = "digit", !.ds = SeqOf(m.cand[Head(m.qs)], m.ord)]
    ELSE IF m.mode = "digit" THEN
        IF m.ds = <<>> THEN
            IF Cardinality(m.cand[Head(m.qs)]) = 1
            THEN [m EXCEPT !.queue = RemoveAt(@, m.index),
                           !.index = IF @ # 0 THEN @ - 1 ELSE @,
                           !.mode = "while", !.depth = @ + 1]
            ELSE [m EXCEPT !.index = @ + 1, !.qs = Tail(@), !.mode = "cell"]
        ELSE IF m.counter < m.depth
        THEN CSPAfterAssign(m, assign(m.cand, m.queue[1], Head(m.ds), m.ord))
        ELSE [m EXCEPT !.ds = Tail(@)]
    ELSE m

RECURSIVE CSPRun(_, _)
CSPRunOn(h, k) == IF h.mode = "done" THEN h ELSE CSPRun(h, k)

CSPRun(m, k) == IF k = 0 THEN CSPStep(m) ELSE CSPRunOn(CSPRun(m, k - 1), k - 1)

RECURSIVE CSPFinish(_, _)
CSPFinishOn(h, k) == IF h.mode = "done" THEN h ELSE CSPFinish(h, k + 1)

CSPFinish(m, k) == CSPFinishOn(CSPRun(m, k), k)

CSPSolver_solve(cand, q, ord) ==
    CSPFinish([cand |-> cand, queue |-> q, ord |-> ord, depth |-> 1, counter |-> 1,
               index |-> 0, mode |-> "while", qs |-> <<>>, ds |-> <<>>, ret |-> "none"],
              SearchLog)

-----------------------------------------------------------------------------
(* RuleBasedSolver::solve *)

(* RuleBasedSolver::solved: for each cell of the clone of                  *)
(* cells_with_candidates, in order: pop() the last element of              *)
(* cells_with_candidates when the cell has one candidate, return false     *)
(* otherwise                                                               *)
RuleBasedSolver_solved(cwc, cand) ==
    LET bad == {k \in 1..Len(cwc) : Cardinality(cand[cwc[k]]) # 1}
        pops == IF bad = {} THEN Len(cwc) ELSE Min(bad) - 1
    IN  [ok |-> bad = {}, cwc |-> SubSeq(cwc, 1, Len(cwc) - pops)]

(* one pass of the loop: apply_basic_rules, then apply_intermediate_rules *)
ThenIntermediate(b, cwc, ord) ==
    IF b.panic THEN b ELSE Applied(b, apply_intermediate_rules(b.cand, cwc, ord))

RulePass(cand, cwc, ord) == ThenIntermediate(apply_basic_rules(cand, cwc, ord), cwc, ord)

(* loop { let boardcopy = cells_with_candidates.clone(); ...               *)
(*        if !changes_made { break; }                                      *)
(*        if boardcopy == self.cells_with_candidates { break; } }          *)
RECURSIVE RuleLoop(_, _, _)
RuleLoopOn(p, boardcopy, cwc, ord) ==
    IF p.panic \/ ~p.found \/ boardcopy = cwc THEN p ELSE RuleLoop(p.cand, cwc, ord)

RuleLoop(cand, cwc, ord) == RuleLoopOn(RulePass(cand, cwc, ord), cwc, cwc, ord)

SolveResult(ret, cand, cwc) == [ret |-> ret, cand |-> cand, cwc |-> cwc]

(* the CSPSolver made when the rules leave the board unsolved *)
RuleFallback(c, cwc) == SolveResult(c.ret, c.cand, cwc)

RuleSecond(cand, s, ord) ==
    IF s.ok THEN SolveResult("true", cand, s.cwc)
    ELSE RuleFallback(CSPSolver_solve(cand, PriorityQueue(cand), ord), s.cwc)

RuleAfterLoop(p, cwc, ord) ==
    IF p.panic THEN SolveResult("panic", p.cand, cwc)
    ELSE RuleSecond(p.cand, RuleBasedSolver_solved(cwc, p.cand), ord)

RuleFirst(cand, s, cwc, ord) ==
    IF s.ok THEN SolveResult("true", cand, s.cwc)
    ELSE RuleAfterLoop(RuleLoop(cand, cwc, ord), cwc, ord)

RuleBasedSolver_solve(cand, cwc, ord) ==
    RuleFirst(cand, RuleBasedSolver_solved(cwc, cand), CellsWithCandidates(cand), ord)

-----------------------------------------------------------------------------
(* Puzzles given as grids *)

(* a solved grid *)
Sol1 ==
    << <<4, 8, 3, 9, 2, 1, 6, 5, 7>>,
       <<9, 6, 7, 3, 4, 5, 8, 2, 1>>,
       <<2, 5, 1, 8, 7, 6, 4, 9, 3>>,
       <<5, 4, 8, 1, 3, 2, 9, 7, 6>>,
       <<7, 2, 9, 5, 6, 4, 1, 3, 8>>,
       <<1, 3, 6, 7, 9, 8, 2, 4, 5>>,
       <<3, 7, 2, 6, 8, 9, 5, 1, 4>>,
       <<8, 1, 4, 2, 5, 3, 7, 6, 9>>,
       <<6, 9, 5, 4, 1, 7, 3, 8, 2>> >>

(* a puzzle with 32 givens whose solution is Sol1 *)
Grid1 ==
    << <<0, 0, 3, 0, 2, 0, 6, 0, 0>>,
       <<9, 0, 0, 3, 0, 5, 0, 0, 1>>,
       <<0, 0, 1, 8, 0, 6, 4, 0, 0>>,
       <<0, 0, 8, 1, 0, 2, 9, 0, 0>>,
       <<7, 0, 0, 0, 0, 0, 0, 0, 8>>,
       <<0, 0, 6, 7, 0, 8, 2, 0, 0>>,
       <<0, 0, 2, 6, 0, 9, 5, 0, 0>>,
       <<8, 0, 0, 2, 0, 3, 0, 0, 9>>,
       <<0, 0, 5, 0, 1, 0, 3, 0, 0>> >>

(* the entry of grid g at position i of the puzzle string *)
GridAt(g, i) == g[((i - 1) \div N) + 1][((i - 1) % N) + 1]

GridString(g) ==
    [i \in 1..StrLen |-> IF GridAt(g, i) = 0 THEN "." ELSE DigitChars[GridAt(g, i) + 1]]

(* g with only the entries at the positions in S kept *)
Keep(g, S) ==
    [r \in 1..N |-> [c \in 1..N |-> IF (N * (r - 1) + c) \in S THEN g[r][c] ELSE 0]]

(* g with v at position i *)
Put(g, i, v) == [g EXCEPT ![((i - 1) \div N) + 1][((i - 1) % N) + 1] = v]

(* the first k rows of Grid1 *)
Grid1Rows(k) == GridString(Keep(Grid1, 1..(N * k)))

(* Sol1 with the positions in S left blank *)
Sol1Blank(S) == GridString(Keep(Sol1, (1..StrLen) \ S))

(* the same with a second 4 in row A, at A2 *)
Sol1DupRow(S) == GridString(Put(Keep(Sol1, (1..StrLen) \ S), 2, 4))

(* the string of a puzzle has the same digit twice in one row *)
HasRowDuplicate(p) ==
    \E r \in 0..(N - 1) : \E c1, c2 \in 1..N :
        /\ c1 < c2
        /\ p[N * r + c1] = p[N * r + c2]
        /\ p[N * r + c1] \notin {".", "0"}

(* the givens of puzzle p are entries of grid g *)
Agrees(p, g) ==
    \A i \in 1..StrLen : p[i] \in {".", "0"} \/ p[i] = DigitChars[GridAt(g, i) + 1]

(* the board as a grid indexed from 1 *)
BoardGrid(b) == [r \in 1..N |-> [c \in 1..N |-> b[r - 1][c - 1]]]

(* no entry of the board is 0 *)
Full(b) == \A r, c \in 0..(N - 1) : b[r][c] # 0

-----------------------------------------------------------------------------
(* The rule loop of RuleBasedSolver::solve, rule by rule: lines 661-664    *)
(* set cells_with_candidates, then the six rules run in the order of       *)
(* apply_basic_rules and apply_intermediate_rules.  pc = "rule" with nops  *)
(* rules applied so far.                                                   *)

(* digits 1 and 2 each have A1 as their only place in row A and in         *)
(* column 1                                                                *)
PuzzleTwoHidden ==
    PuzzleString({<<14, 1>>, <<27, 1>>, <<32, 1>>, <<63, 1>>,
                  <<17, 2>>, <<24, 2>>, <<43, 2>>, <<72, 2>>})

RulePuzzles ==
    {PuzzleEmpty, PuzzleNaked, PuzzleDupRow, PuzzleTwoHidden}
    \cup {Grid1Rows(k) : k \in 1..N}
    \cup {Sol1Blank(S) : S \in {{1}, {1, 2}, {1, 2, 10, 11}}}
    \cup {Sol1DupRow(S) : S \in {{3}, {3, 81}}}

InitRules == \E p \in RulePuzzles : Constructed(p)

BeginRules ==
    /\ pc = "ready"
    /\ cells_with_candidates' = CellsWithCandidates(candidates)
    /\ pc' = "rule"
    /\ nops' = 0
    /\ last' = [NoOp EXCEPT !.op = "solve"]
    /\ UNCHANGED <<puzzle, board, candidates, queue, counter, temperature, temperature_start,
                   score, cascade>>

(* rule number k of the pass has given r *)
RuleReturns(k, r) ==
    /\ candidates' = r.cand
    /\ last' = [NoOp EXCEPT !.op = RuleNames[k],
                            !.ret = IF r.panic THEN "panic" ELSE Bool(r.found),
                            !.ignored = r.ignored]
    /\ pc' = IF r.panic THEN "aborted" ELSE IF k = Len(RuleNames) THEN "pass_done" ELSE "rule"

RuleApplied(k) ==
    /\ pc = "rule"
    /\ nops = k - 1
    /\ \E ord \in Orders :
         RuleReturns(k, ApplyRule(RuleNames[k], candidates,
                                  RuleCells(RuleNames[k], cells_with_candidates), ord))
    /\ nops' = k
    /\ UNCHANGED <<puzzle, board, queue, cells_with_candidates, counter, temperature,
                   temperature_start, score, cascade>>

DoNakedSingle == RuleApplied(1)
DoHiddenSingle == RuleApplied(2)
DoNakedPair == RuleApplied(3)
DoHiddenPair == RuleApplied(4)
DoLockedCandidates1 == RuleApplied(5)
DoLockedCandidates2 == RuleApplied(6)

NextRules ==
    \/ InitLw
    \/ BeginRules
    \/ DoNakedSingle
    \/ DoHiddenSingle
    \/ DoNakedPair
    \/ DoHiddenPair
    \/ DoLockedCandidates1
    \/ DoLockedCandidates2

SpecRules == InitRules /\ [][NextRules]_vars

(* C9: a deduction rule whose nested assign / eliminate call returns       *)
(* failure reports it to its caller as an ordinary result: no rule         *)
(* application ends in a panic and none goes on after a failed call.       *)
C9_RuleFailureIsOrdinaryResult ==
    (\E k \in DOMAIN RuleNames : last.op = RuleNames[k])
    => (last.ret # "panic" /\ ~last.ignored)

-----------------------------------------------------------------------------
(* Solving: main's loop over the puzzles.  A solver is constructed once;   *)
(* for each puzzle a Sudoku is made, the solver's initialize_candidates    *)
(* and solve are called on it, and the next puzzle is read.  last.op says  *)
(* which solver is at work.                                                *)

SolvePuzzles ==
    {PuzzleEmpty, PuzzleNaked, PuzzleTwoHidden, GridString(Grid1), Grid1Rows(6)}
    \cup {Sol1Blank(S) : S \in {{}, {1}, {1, 2}, {41, 81}}}
    \cup {Sol1DupRow(S) : S \in {{}, {1}, {3, 81}}}

InitSolve == \E p \in SolvePuzzles : Constructed(p)

(* BruteForceSolver::initialize_candidates *)
InitBruteForce ==
    /\ pc = "new"
    /\ last.op \in {"new", "BruteForceSolver"}
    /\ \E ord \in Orders : candidates' = initialize_candidates_heavy(board, ord)
    /\ pc' = "ready"
    /\ last' = [NoOp EXCEPT !.op = "BruteForceSolver"]
    /\ UNCHANGED <<puzzle, board, queue, cells_with_candidates, counter, temperature,
                   temperature_start, score, nops, cascade>>

(* CSPSolver::initialize_candidates *)
CSPInitialized(cand) ==
    /\ candidates' = cand
    /\ queue' = PriorityQueue(cand)

InitCSP ==
    /\ pc = "new"
    /\ last.op \in {"new", "CSPSolver"}
    /\ \E ord \in Orders : CSPInitialized(initialize_candidates_heavy(board, ord))
    /\ pc' = "ready"
    /\ last' = [NoOp EXCEPT !.op = "CSPSolver"]
    /\ UNCHANGED <<puzzle, board, cells_with_candidates, counter, temperature,
                   temperature_start, score, nops, cascade>>

(* RuleBasedSolver::initialize_candidates *)
InitRuleBased ==
    /\ pc = "new"
    /\ last.op \in {"new", "RuleBasedSolver"}
    /\ candidates' = initialize_candidates_lw(board)
    /\ pc' = "ready"
    /\ last' = [NoOp EXCEPT !.op = "RuleBasedSolver"]
    /\ UNCHANGED <<puzzle, board, queue, cells_with_candidates, counter, temperature,
                   temperature_start, score, nops, cascade>>

(* BruteForceSolver::solve *)
BruteForceReturns(m) ==
    /\ board' = m.board
    /\ last' = [last EXCEPT !.ret = m.ret]

SolveBruteForce ==
    /\ pc = "ready"
    /\ last.op = "BruteForceSolver"
    /\ \E ord \in Orders : BruteForceReturns(BruteForceSolve(board, candidates, ord))
    /\ pc' = "solved"
    /\ UNCHANGED <<puzzle, candidates, queue, cells_with_candidates, counter, temperature,
                   temperature_start, score, nops, cascade>>

(* CSPSolver::solve *)
CSPReturns(m) ==
    /\ candidates' = m.cand
    /\ queue' = m.queue
    /\ last' = [last EXCEPT !.ret = m.ret]
    /\ pc' = IF m.ret = "diverges" THEN "looping" ELSE "solved"

SolveCSP ==
    /\ pc = "ready"
    /\ last.op = "CSPSolver"
    /\ \E ord \in Orders : CSPReturns(CSPSolver_solve(candidates, queue, ord))
    /\ UNCHANGED <<puzzle, board, cells_with_candidates, counter, temperature,
                   temperature_start, score, nops, cascade>>

(* RuleBasedSolver::solve *)
RuleBasedReturns(s) ==
    /\ candidates' = s.cand
    /\ cells_with_candidates' = s.cwc
    /\ last' = [last EXCEPT !.ret = s.ret]
    /\ pc' = IF s.ret = "panic" THEN "aborted"
             ELSE IF s.ret = "diverges" THEN "looping" ELSE "solved"

SolveRuleBased ==
    /\ pc = "ready"
    /\ last.op = "RuleBasedSolver"
    /\ \E ord \in Orders :
         RuleBasedReturns(RuleBasedSolver_solve(candidates, cells_with_candidates, ord))
    /\ UNCHANGED <<puzzle, board, queue, counter, temperature, temperature_start, score, nops,
                   cascade>>

(* the next line of the input: a new Sudoku is made from it; the solver,   *)
(* with its queue or its cells_with_candidates, is kept                    *)
NextPuzzle ==
    /\ pc = "solved"
    /\ \E p \in SolvePuzzles :
         /\ puzzle' = p
         /\ board' = new(p).grid
    /\ candidates' = <<>>
    /\ pc' = "new"
    /\ last' = [NoOp EXCEPT !.op = last.op]
    /\ UNCHANGED <<queue, cells_with_candidates, counter, temperature, temperature_start,
                   score, nops, cascade>>

NextSolve ==
    \/ InitBruteForce
    \/ InitCSP
    \/ InitRuleBased
    \/ SolveBruteForce
    \/ SolveCSP
    \/ SolveRuleBased
    \/ NextPuzzle

SpecSolve == InitSolve /\ [][NextSolve]_vars

(* solved grids the puzzles are checked against *)
SolNaked ==
    << <<9, 4, 5, 1, 2, 3, 6, 7, 8>>,
       <<1, 7, 6, 4, 5, 8, 2, 3, 9>>,
       <<2, 3, 8, 6, 7, 9, 1, 4, 5>>,
       <<4, 1, 2, 3, 6, 5, 8, 9, 7>>,
       <<5, 8, 3, 2, 9, 7, 4, 1, 6>>,
       <<6, 9, 7, 8, 1, 4, 3, 5, 2>>,
       <<3, 2, 9, 5, 4, 6, 7, 8, 1>>,
       <<7, 6, 4, 9, 8, 1, 5, 2, 3>>,
       <<8, 5, 1, 7, 3, 2, 9, 6, 4>> >>

KnownSolutions == {Sol1, SolNaked}

(* a grid indexed from 1 as a board *)
GridBoard(g) == [r \in 0..(N - 1) |-> [c \in 0..(N - 1) |-> g[r + 1][c + 1]]]

(* puzzle p has a solution among the known ones *)
HasSolution(p) ==
    \E g \in KnownSolutions :
        /\ Full(GridBoard(g))
        /\ board_correct(GridBoard(g))
        /\ Agrees(p, g)

(* the cell at position i of the puzzle string *)
CellAt(i) == coords_to_cell((i - 1) \div N, (i - 1) % N)

(* every domain is a singleton *)
AllSingletons(cand) == \A s \in Cells : Cardinality(cand[s]) = 1

(* no two cells of a row, a column or a box have the same singleton domain *)
NoSingletonClash(cand) ==
    \A s \in Cells : \A s2 \in peers[s] : ~(Cardinality(cand[s]) = 1 /\ cand[s] = cand[s2])

(* the domains hold the givens of puzzle p *)
DomainsHoldGivens(p, cand) ==
    \A i \in 1..StrLen : p[i] \in {".", "0"} \/ cand[CellAt(i)] = {to_digit(p[i])}

(* the board holds the givens of puzzle p *)
BoardHoldsGivens(p, b) ==
    \A i \in 1..StrLen : p[i] \in {".", "0"} \/ BoardAt(b, CellAt(i)) = to_digit(p[i])

(* C3: for a puzzle with the same digit twice in one row, initialising the *)
(* candidates and solving with BruteForceSolver, CSPSolver or              *)
(* RuleBasedSolver never returns true.                                     *)
C3_RowDuplicateNeverSolved ==
    (pc = "solved" /\ HasRowDuplicate(puzzle)) => last.ret # "true"

(* C4: whenever RuleBasedSolver.solve returns true, on a fresh or a reused *)
(* solver, every domain is a singleton and no row, column or box has two   *)
(* cells with the same singleton digit.                                    *)
C4_RuleBasedTrueMeansSolved ==
    (pc = "solved" /\ last.op = "RuleBasedSolver" /\ last.ret = "true")
    => (AllSingletons(candidates) /\ NoSingletonClash(candidates))

(* C5: whenever CSPSolver.solve returns true after initialize_candidates,  *)
(* every domain is a singleton, the singletons form a grid with no digit   *)
(* twice in a row, column or box, and the grid agrees with every given.    *)
C5_CSPTrueMeansSolved ==
    (pc = "solved" /\ last.op = "CSPSolver" /\ last.ret = "true")
    => /\ AllSingletons(candidates)
       /\ NoSingletonClash(candidates)
       /\ DomainsHoldGivens(puzzle, candidates)

(* C6: for the empty puzzle and for every puzzle that has a solution,      *)
(* initialize_candidates followed by BruteForceSolver.solve returns true,  *)
(* the board then has no 0 entry, board_correct is true and every given is *)
(* unchanged.                                                              *)
C6_BruteForceSolvesSolvable ==
    (pc = "solved" /\ last.op = "BruteForceSolver" /\ HasSolution(puzzle))
    => /\ last.ret = "true"
       /\ Full(board)
       /\ board_correct(board)
       /\ BoardHoldsGivens(puzzle, board)

(* the empty puzzle and a puzzle of 8 givens have been solved by search *)
C6_Witness ==
    /\ pc = "solved"
    /\ last.op = "BruteForceSolver"
    /\ last.ret = "true"
    /\ puzzle \in {PuzzleEmpty, PuzzleNaked}
    /\ HasSolution(puzzle)

-----------------------------------------------------------------------------
(* StochasticSolver.  The temperature is kept by its sign: 1 for a positive *)
(* value, 0 for zero or NaN, -1 for a negative value (negative zero        *)
(* included); accept reads nothing else of it.                             *)

PerfectScore == -243
IterCap == 1000000

(* the number of entries of the array, equal ones counted each *)
element_count(arr) == Cardinality(DOMAIN arr)

(* Sudoku::unique_elements: the number of distinct non-zero values *)
unique_elements(arr) == Cardinality({arr[i] : i \in DOMAIN arr} \ {0})

RECURSIVE SumTo(_, _)
SumTo(f, n) == IF n < 0 THEN 0 ELSE f[n] + SumTo(f, n - 1)

(* a score that counts the rows twice and the columns not at all *)
score_rows_twice(b) ==
    0 - SumTo([i \in 0..(N - 1) |-> unique_elements(b[i]) + unique_elements(b[i])], N - 1)
      - SumTo([k \in 0..(N - 1) |->
                 unique_elements([i \in 0..(N - 1) |->
                     b[(k \div 3) * 3 + (i \div 3)][(k % 3) * 3 + (i % 3)]])], N - 1)

(* StochasticSolver::score *)
StochasticSolver_score(b) ==
    0 - SumTo([i \in 0..(N - 1) |->
                 unique_elements(b[i]) + unique_elements([j \in 0..(N - 1) |-> b[j][i]])], N - 1)
      - SumTo([k \in 0..(N - 1) |->
                 unique_elements([i \in 0..(N - 1) |->
                     b[(k \div 3) * 3 + (i \div 3)][(k % 3) * 3 + (i % 3)]])], N - 1)

(* digit_count of solve *)
digit_count(b) == [d \in Digits |-> Cardinality({c \in Cells : BoardAt(b, c) = d})]

Repeat(v, n) == [k \in 1..n |-> v]

(* missing_digits of solve before the shuffle: each digit that occurs      *)
(* fewer than 9 times, once per missing occurrence                         *)
RECURSIVE MissingFrom(_, _)
MissingFrom(count, d) ==
    IF d > N THEN <<>>
    ELSE (IF count[d] < 9 THEN Repeat(d, 9 - count[d]) ELSE <<>>) \o MissingFrom(count, d + 1)

missing_digits(b) == MissingFrom(digit_count(b), 1)

(* the outcomes of missing_digits.shuffle(&mut rng) *)
Shuffles(s) == {[k \in 1..Len(s) |-> s[p[k]]] : p \in Permutations(1..Len(s))}

(* the value of `index` when the loop over the board reaches the cell *)
FillIndex(b, cell) ==
    Cardinality({c \in Cells : BoardAt(b, c) = 0 /\ StringIndex(c) < StringIndex(cell)})

(* the board after the 0 entries have received missing_digits[index] *)
Filled(b, md) ==
    [row \in 0..(N - 1) |-> [col \in 0..(N - 1) |->
        IF b[row][col] = 0 THEN md[FillIndex(b, coords_to_cell(row, col)) + 1] ELSE b[row][col]]]

(* StochasticSolver.units: for each cell its row, column and box peers,    *)
(* each a Vec collected from a HashSet                                     *)
SolverUnits(ord) ==
    [k \in 0..(3 * Len(cells) - 1) |-> SeqOf(UnitsOf[cells[(k \div 3) + 1]][(k % 3) + 1], ord)]

(* a move that copies the second cell's value to the first instead of      *)
(* exchanging the two                                                      *)
swap_random_copy(b, unit, i, j) == SetBoard(b, unit[i + 1], BoardAt(b, unit[j + 1]))

(* StochasticSolver::swap_random on the board, for the unit and the two    *)
(* positions drawn                                                         *)
swap_random(b, unit, i, j) ==
    SetBoard(SetBoard(b, unit[i + 1], BoardAt(b, unit[j + 1])), unit[j + 1], BoardAt(b, unit[i + 1]))

(* StochasticSolver::cool_down with a cooling factor between 0 and 1: the  *)
(* product keeps the sign, or a positive value underflows to zero          *)
cool_down(t) == IF t = 1 THEN {1, 0} ELSE {t}

(* StochasticSolver::accept, the results possible for a u drawn in [0, 1): *)
(* exp(delta_s / temperature) is at least 1 for a positive temperature,    *)
(* infinite for zero, and below 1 for a negative one                       *)
accept(delta_s, t) ==
    IF delta_s <= 0 THEN {TRUE}
    ELSE IF t < 0 THEN {TRUE, FALSE}
    ELSE {FALSE}

(* Sol1 with the digits of A1 and A2 exchanged *)
Sol1Swapped == GridString(Put(Put(Sol1, 1, 8), 2, 4))

AnnealPuzzles ==
    {GridString(Sol1), Sol1Swapped, Sol1Blank({1}), Sol1Blank({1, 2}),
     Sol1DupRow({}), Sol1DupRow({3})}

(* the sign of the temperature StochasticSolver::new is given *)
TemperatureStarts == {-1, 0, 1}

(* the counter is never reset: a solver used before has any count up to    *)
(* the cap                                                                 *)
AnnealCounters == {0, IterCap - 1, IterCap}

(* the units and positions swap_random draws from: the three units of A3,  *)
(* their first three cells                                                 *)
SwapUnits == {6, 7, 8}
SwapIndices == {0, 1, 2}
MaxSwaps == 2

InitAnneal ==
    \E p \in AnnealPuzzles : \E t \in TemperatureStarts : \E c \in AnnealCounters :
        /\ puzzle = p
        /\ board = new(p).grid
        /\ candidates = <<>>
        /\ queue = <<>>
        /\ cells_with_candidates = <<>>
        /\ counter = c
        /\ temperature = t
        /\ temperature_start = t
        /\ score = 0
        /\ cascade = NoCascade
        /\ pc = "new"
        /\ nops = 0
        /\ last = [NoOp EXCEPT !.op = "StochasticSolver"]

(* solve up to the loop: count, shuffle, fill, score *)
AnnealFilled(b, md) ==
    /\ pc' = IF Len(md) < Cardinality({c \in Cells : BoardAt(b, c) = 0}) THEN "aborted" ELSE "anneal"
    /\ board' = IF Len(md) < Cardinality({c \in Cells : BoardAt(b, c) = 0}) THEN b ELSE Filled(b, md)
    /\ score' = StochasticSolver_score(board')

AnnealFill ==
    /\ pc = "new"
    /\ last.op = "StochasticSolver"
    /\ \E md \in Shuffles(missing_digits(board)) : AnnealFilled(board, md)
    /\ UNCHANGED <<puzzle, candidates, queue, cells_with_candidates, counter, temperature,
                   temperature_start, nops, last, cascade>>

(* the rest of one iteration once the swap gave board b2 *)
AnnealSwapped(b2, s2) ==
    /\ \E a \in accept(s2 - score, temperature) :
         /\ board' = IF a THEN b2 ELSE board
         /\ score' = IF a THEN s2 ELSE score
    /\ \E t \in cool_down(temperature) : temperature' = t

AnnealOn(b2) == AnnealSwapped(b2, StochasticSolver_score(b2))

(* one iteration of the while loop of solve *)
AnnealSwap ==
    /\ pc = "anneal"
    /\ score > PerfectScore
    /\ counter < IterCap
    /\ nops < MaxSwaps
    /\ \E ord \in Orders : \E k \in SwapUnits : \E i, j \in SwapIndices :
         AnnealOn(swap_random(board, SolverUnits(ord)[k], i, j))
    /\ counter' = counter + 1
    /\ nops' = nops + 1
    /\ UNCHANGED <<puzzle, candidates, queue, cells_with_candidates, temperature_start, pc,
                   last, cascade>>

(* the loop has ended: reset the temperature, return score == -243 *)
AnnealReturn ==
    /\ pc = "anneal"
    /\ ~(score > PerfectScore /\ counter < IterCap)
    /\ temperature' = temperature_start
    /\ last' = [last EXCEPT !.ret = Bool(score = PerfectScore)]
    /\ pc' = "solved"
    /\ UNCHANGED <<puzzle, board, candidates, queue, cells_with_candidates, counter,
                   temperature_start, score, nops, cascade>>

NextAnneal ==
    \/ AnnealFill
    \/ AnnealSwap
    \/ AnnealReturn

SpecAnneal == InitAnneal /\ [][NextAnneal]_vars

(* C7: StochasticSolver.solve returns true if and only if the score of the *)
(* final board is the perfect score -243, and whenever it returns true the *)
(* board has no 0 entry and no digit twice in a row, a column or a box.    *)
C7_StochasticTrueIffPerfect ==
    (pc = "solved" /\ last.op = "StochasticSolver")
    => /\ (last.ret = "true") <=> (StochasticSolver_score(board) = PerfectScore)
       /\ (last.ret = "true") => (Full(board) /\ board_correct(board))

(* solve has returned true after at least one swap *)
C7_Witness ==
    /\ pc = "solved"
    /\ last.op = "StochasticSolver"
    /\ last.ret = "true"
    /\ nops > 0
    /\ StochasticSolver_score(board) = PerfectScore

-----------------------------------------------------------------------------
(* Claims about the topology built by Sudoku::new *)

(* C11: every one of the 81 cells has exactly 20 peers, itself not among   *)
(* them; the peer relation is symmetric; and the peers of a cell are the   *)
(* union of its 8 row peers, 8 column peers and 8 box peers.               *)
C11_PeersTopology ==
    (pc = "new") =>
      /\ Cardinality(Cells) = N * N
      /\ \A s \in Cells :
           /\ Cardinality(peers[s]) = 20
           /\ s \notin peers[s]
           /\ \A s2 \in Cells : (s2 \in peers[s]) <=> (s \in peers[s2])
           /\ Cardinality(row_peers[s]) = 8
           /\ Cardinality(col_peers[s]) = 8
           /\ Cardinality(box_peers[s]) = 8
           /\ peers[s] = row_peers[s] \cup col_peers[s] \cup box_peers[s]

(* Sudoku::new has returned a Sudoku with its peer maps *)
C11_Witness ==
    /\ pc = "new"
    /\ board # <<>>
    /\ DOMAIN peers = Cells
    /\ peers[45] # {}

-----------------------------------------------------------------------------
(* Further claims about the propagation engine, under SpecProp *)

(* C12: eliminate(c, d) called a second time, directly after               *)
(* eliminate(c, d), leaves the candidate domains as the first call left    *)
(* them and returns what the first call returned.                          *)
C12_EliminateIdempotent ==
    [][(/\ last.op = "eliminate"
        /\ last'.op = "eliminate"
        /\ nops' = nops + 1
        /\ last'.cell = last.cell
        /\ last'.digit = last.digit)
       => (candidates' = candidates /\ last'.ret = last.ret)]_vars

-----------------------------------------------------------------------------
(* Further claims about the strategies, under SpecSolve *)

(* C13: after initialize_candidates and after solve, of any strategy, each *)
(* cell whose board value v is not 0 has the candidate domain {v}.         *)
C13_AssignedCellHasSingletonDomain ==
    (pc \in {"ready", "solved"})
    => \A cell \in Cells :
         BoardAt(board, cell) # 0 => candidates[cell] = {BoardAt(board, cell)}

-----------------------------------------------------------------------------
(* Further claims about StochasticSolver, under SpecAnneal *)

(* C14: the score of a full board is the perfect score -243 exactly when   *)
(* the board is a valid solution; a board with a digit twice in a row, a   *)
(* column or a box scores strictly above -243; no board scores below -243. *)
C14_ScoreSanity ==
    /\ StochasticSolver_score(board) >= PerfectScore
    /\ ~board_correct(board) => StochasticSolver_score(board) > PerfectScore
    /\ Full(board) => ((StochasticSolver_score(board) = PerfectScore) <=> board_correct(board))

(* a full board with a duplicate has been produced by a swap and scored *)
C14_Witness ==
    /\ pc = "anneal"
    /\ nops > 0
    /\ Full(board)
    /\ ~board_correct(board)
    /\ score > PerfectScore

(* A solver that has been used: the counter of earlier solves is kept, so  *)
(* solve starts within MaxSwaps iterations of the cap, or at the cap.      *)
UsedCounters == (IterCap - MaxSwaps)..IterCap

InitAnnealUsed ==
    \E p \in AnnealPuzzles : \E t \in TemperatureStarts : \E c \in UsedCounters :
        /\ puzzle = p
        /\ board = new(p).grid
        /\ candidates = <<>>
        /\ queue = <<>>
        /\ cells_with_candidates = <<>>
        /\ counter = c
        /\ temperature = t
        /\ temperature_start = t
        /\ score = 0
        /\ cascade = NoCascade
        /\ pc = "new"
        /\ nops = 0
        /\ last = [NoOp EXCEPT !.op = "StochasticSolver"]

(* solve runs to its return: each step of it is eventually taken *)
SpecAnnealLive == InitAnnealUsed /\ [][NextAnneal]_vars /\ WF_vars(NextAnneal)

(* C15: on a solvable puzzle StochasticSolver.solve, started from the      *)
(* board filled with the missing digits, eventually reaches the perfect    *)
(* score and returns true.                                                 *)
C15_AnnealEventuallySolves ==
    (pc = "new" /\ HasSolution(puzzle)) ~> (pc = "solved" /\ last.ret = "true")

(* C16: whenever assign or eliminate returns success, for every cell whose *)
(* domain is a singleton {d} no peer of the cell has d in its domain.      *)
C16_SuccessMeansCascaded ==
    (last.op \in {"assign", "eliminate"} /\ last.ret = "true")
    => \A s \in Cells :
         Cardinality(candidates[s]) = 1
         => \A s2 \in peers[s] : candidates[s] \cap candidates[s2] = {}

(* The places left for digit d in unit number u of cell c *)
PlacesLeft(cand, c, u, d) == {s \in UnitsOf[c][u] : d \in cand[s]}

(* C17: whenever eliminate(c, d) returns success after removing d from c,  *)
(* in each of the three units of c the digit d is still a candidate of at  *)
(* least one cell, and a cell that is its only place in the unit has the   *)
(* domain {d}; with no place left in some unit eliminate returns failure.  *)
C17_UnitPlacesAfterEliminate ==
    (/\ last.op = "eliminate"
     /\ last.digit \in last.dom
     /\ last.digit \notin candidates[last.cell])
    => /\ last.ret = "true" =>
            \A u \in 1..3 :
                /\ PlacesLeft(candidates, last.cell, u, last.digit) # {}
                /\ \A s \in PlacesLeft(candidates, last.cell, u, last.digit) :
                       PlacesLeft(candidates, last.cell, u, last.digit) = {s}
                       => candidates[s] = {last.digit}
       /\ (\E u \in 1..3 : PlacesLeft(candidates, last.cell, u, last.digit) = {})
             => last.ret = "false"

(* eliminate has removed the digit from the cell and returned success,    *)
(* and the digit has one place left in the row of the cell                *)
C17_Witness ==
    /\ last.op = "eliminate"
    /\ last.ret = "true"
    /\ last.digit \in last.dom
    /\ last.digit \notin candidates[last.cell]
    /\ Cardinality(PlacesLeft(candidates, last.cell, 1, last.digit)) = 1

-----------------------------------------------------------------------------
(* Propagation towards a solution: after initialisation, assign is called  *)
(* with the digit a complete valid grid has in the cell.                   *)

(* the transposed grid *)
Transposed(g) == [r \in 1..N |-> [c \in 1..N |-> g[c][r]]]

SoundSolutions == KnownSolutions \cup {Transposed(Sol1)}

SoundPuzzles ==
    {PuzzleEmpty, PuzzleNaked, Grid1Rows(2), Sol1Blank({1, 2, 10, 11})}

SoundCells == {1, 2, 45}

InitSound == \E p \in SoundPuzzles : Constructed(p)

(* the digit of grid g in the cell *)
GridDigit(g, cell) == g[cell_to_coords(cell)[1] + 1][cell_to_coords(cell)[2] + 1]

(* grid g is consistent with the domains *)
Consistent(g, cand) == \A s \in Cells : GridDigit(g, s) \in cand[s]

AssignReturns(cell, digit, r) ==
    /\ candidates' = r.cand
    /\ last' = [NoOp EXCEPT !.op = "assign", !.cell = cell, !.digit = digit,
                            !.ret = Bool(r.ok), !.dom = candidates[cell]]

AssignCalled(cell, digit, ord) ==
    AssignReturns(cell, digit, assign(candidates, cell, digit, ord))

DoAssignSolution ==
    /\ pc = "ready"
    /\ nops < MaxOps
    /\ \E g \in SoundSolutions : \E cell \in SoundCells : \E ord \in Orders :
         AssignCalled(cell, GridDigit(g, cell), ord)
    /\ nops' = nops + 1
    /\ UNCHANGED <<puzzle, board, queue, cells_with_candidates, counter, temperature,
                   temperature_start, score, pc, cascade>>

NextSound == InitLw \/ InitHeavy \/ DoAssignSolution

SpecSound == InitSound /\ [][NextSound]_vars

(* C18: for every complete valid grid G consistent with the domains and    *)
(* with G[c] = d, assign(c, d) returns success and leaves G consistent     *)
(* with every domain.                                                      *)
C18_PropagationSound ==
    [][\A g \in SoundSolutions :
         (/\ pc = "ready"
          /\ nops' = nops + 1
          /\ last'.op = "assign"
          /\ Full(GridBoard(g)) /\ board_correct(GridBoard(g))
          /\ Consistent(g, candidates)
          /\ GridDigit(g, last'.cell) = last'.digit)
         => (last'.ret = "true" /\ Consistent(g, candidates'))]_vars

(* assign has narrowed a larger domain to the digit of a consistent grid *)
C18_Witness ==
    /\ last.op = "assign"
    /\ last.ret = "true"
    /\ Cardinality(last.dom) > 1
    /\ candidates[last.cell] = {last.digit}
    /\ \E g \in SoundSolutions :
         Consistent(g, candidates) /\ GridDigit(g, last.cell) = last.digit

-----------------------------------------------------------------------------
(* Frame and termination of the propagation engine, under SpecProp *)

(* C19: after a call of assign or eliminate every cell's domain is a       *)
(* subset of its domain before the call, and the board grid is unchanged.  *)
C19_OnlyRemovesCandidates ==
    [][(pc = "ready" /\ nops' = nops + 1 /\ last'.op \in {"assign", "eliminate"})
       => /\ \A s \in Cells : candidates'[s] \subseteq candidates[s]
          /\ DOMAIN candidates' = DOMAIN candidates
          /\ board' = board]_vars

(* a call has removed a candidate of the cell it was given *)
C19_Witness ==
    /\ last.op \in {"assign", "eliminate"}
    /\ candidates[last.cell] # last.dom
    /\ candidates[last.cell] \subseteq last.dom

-----------------------------------------------------------------------------
(* One assign / eliminate call taken a step at a time: the frames of the   *)
(* mutual recursion are kept in cascade.stack, the domains are updated in  *)
(* place, and every removal of a candidate is counted.                     *)

(* the number of (cell, digit) pairs still in the domains *)
TotalSize(cand) == Cardinality({sd \in Cells \X Digits : sd[2] \in cand[sd[1]]})

Machine == [cand |-> candidates, stack |-> cascade.stack, ret |-> cascade.ret,
            ord |-> cascade.ord]

CascadePuzzles == PropPuzzles

InitCascade == \E p \in CascadePuzzles : Constructed(p)

BeginAssign ==
    /\ pc = "ready"
    /\ nops = 0
    /\ \E cell \in OpCells, digit \in OpDigits, ord \in Orders :
         /\ cascade' = [stack |-> <<AssignFrame(candidates, cell, digit, ord)>>,
                        ret |-> "none", ord |-> ord, removed |-> 0,
                        size0 |-> TotalSize(candidates)]
         /\ last' = [NoOp EXCEPT !.op = "assign", !.cell = cell, !.digit = digit,
                                 !.dom = candidates[cell]]
    /\ pc' = "call"
    /\ UNCHANGED <<puzzle, board, candidates, queue, cells_with_candidates, counter,
                   temperature, temperature_start, score, nops>>

BeginEliminate ==
    /\ pc = "ready"
    /\ nops = 0
    /\ \E cell \in OpCells, digit \in OpDigits, ord \in Orders :
         /\ cascade' = [stack |-> <<ElimFrame(cell, digit)>>,
                        ret |-> "none", ord |-> ord, removed |-> 0,
                        size0 |-> TotalSize(candidates)]
         /\ last' = [NoOp EXCEPT !.op = "eliminate", !.cell = cell, !.digit = digit,
                                 !.dom = candidates[cell]]
    /\ pc' = "call"
    /\ UNCHANGED <<puzzle, board, candidates, queue, cells_with_candidates, counter,
                   temperature, temperature_start, score, nops>>

Stepped(m, before) ==
    /\ candidates' = m.cand
    /\ cascade' = [cascade EXCEPT !.stack = m.stack, !.ret = m.ret,
                                  !.removed = @ + before - TotalSize(m.cand)]

CascadeStep ==
    /\ pc = "call"
    /\ cascade.stack # <<>>
    /\ \E m \in {PropStep(Machine)} : Stepped(m, TotalSize(candidates))
    /\ UNCHANGED <<puzzle, board, queue, cells_with_candidates, counter, temperature,
                   temperature_start, score, pc, nops, last>>

CascadeReturn ==
    /\ pc = "call"
    /\ cascade.stack = <<>>
    /\ last' = [last EXCEPT !.ret = Bool(cascade.ret = "true")]
    /\ pc' = "ready"
    /\ nops' = nops + 1
    /\ UNCHANGED <<puzzle, board, candidates, queue, cells_with_candidates, counter,
                   temperature, temperature_start, score, cascade>>

NextCascade == InitLw \/ BeginAssign \/ BeginEliminate \/ CascadeStep \/ CascadeReturn

SpecCascade == InitCascade /\ [][NextCascade]_vars /\ WF_vars(CascadeStep \/ CascadeReturn)

(* C20: every call to assign or eliminate returns, and the number of       *)
(* candidates removed in one cascade never exceeds the total size of the   *)
(* domains the call started from (at most 9 * 81 = 729).                   *)
C20_CascadeTerminates ==
    /\ [](pc = "call" => /\ cascade.removed <= cascade.size0
                         /\ cascade.size0 <= N * N * N)
    /\ (pc = "call") ~> (pc = "ready" /\ last.ret \in {"true", "false"})

C20_Witness ==
    /\ pc = "ready"
    /\ last.op \in {"assign", "eliminate"}
    /\ last.ret \in {"true", "false"}
    /\ cascade.removed > N
    /\ cascade.removed = cascade.size0 - TotalSize(candidates)

-----------------------------------------------------------------------------
(* Claims about the rule loop of RuleBasedSolver::solve, under SpecSolve *)

(* a pass of the rules that ran to its end and changed a domain *)
Progressed(r, cand) == ~r.panic /\ r.cand # cand

(* one more pass of the rules over the domains, in the given order *)
PassChanges(cand, ord) == Progressed(RulePass(cand, CellsWithCandidates(cand), ord), cand)

(* C21: when RuleBasedSolver::solve has returned, its rules have been      *)
(* applied to a fixpoint: one more pass of the basic and intermediate      *)
(* rules would change no candidate domain.                                 *)
C21_RulesAppliedToFixpoint ==
    (pc = "solved" /\ last.op = "RuleBasedSolver")
    => \A ord \in Orders : ~PassChanges(candidates, ord)

-----------------------------------------------------------------------------
(* Claims about the single rules, under SpecRules *)

Boxes == {Range(unitlist[i]) : i \in (2 * N + 1)..(3 * N)}

PlacesIn(cand, unit, digit) == {s \in unit : digit \in cand[s]}

(* the places of digit in the box are all in the row (column) of s *)
InOneLine(cand, box, digit, s) ==
    /\ PlacesIn(cand, box, digit) # {}
    /\ \/ \A s2 \in PlacesIn(cand, box, digit) : s2 \div 10 = s \div 10
       \/ \A s2 \in PlacesIn(cand, box, digit) : s2 % 10 = s % 10

(* the pairs <<cell, digit>> the pointing elimination is due to remove:    *)
(* the cell is outside a box whose places for the digit are all in the     *)
(* cell's row or column, and it holds the digit among other candidates     *)
PointingTargets(cand) ==
    {sd \in Cells \X Digits :
        /\ sd[2] \in cand[sd[1]]
        /\ Cardinality(cand[sd[1]]) > 1
        /\ \E box \in Boxes : sd[1] \notin box /\ InOneLine(cand, box, sd[2], sd[1])}

(* C22: locked_candidates_type_1 removes the digit from every cell that    *)
(* is outside a box, in the row (column) holding all the box's places for  *)
(* the digit, and reports progress.                                        *)
C22_PointingElimination ==
    [][(/\ pc = "rule"
        /\ last'.op = "locked_candidates_type_1"
        /\ last'.ret # "panic"
        /\ PointingTargets(candidates) # {})
       => /\ last'.ret = "true"
          /\ \A sd \in PointingTargets(candidates) : sd[2] \notin candidates'[sd[1]]]_vars

(* C23: a rule returns true only when it changed a candidate domain, and   *)
(* returns false when it changed none.                                     *)
C23_ProgressMeansChange ==
    [][(/\ pc = "rule"
        /\ \E k \in DOMAIN RuleNames : last'.op = RuleNames[k]
        /\ last'.ret \in {"true", "false"})
       => (last'.ret = "true" <=> candidates' # candidates)]_vars

-----------------------------------------------------------------------------
(* BruteForceSolver::solve taken a step at a time: a step of BruteStep is  *)
(* one scan for cell_to_fill, one pass of the loop over the candidates or  *)
(* one return to the caller.  cascade holds the frames of the recursion;   *)
(* cascade.entries holds, for each active call, the board it was entered   *)
(* with and the number of placements it has undone, and cascade.entry      *)
(* the same for the call that returned last.  last.cell is the cell        *)
(* chosen by the last scan.                                                *)

SearchPuzzles ==
    {PuzzleEmpty, PuzzleNaked, Sol1Blank({1, 2}), Sol1Blank({1, 2, 10, 11}),
     Sol1DupRow({1}), Sol1DupRow({3, 81})}

InitSearch == \E p \in SearchPuzzles : Constructed(p)

SearchMachine ==
    [board |-> board, cand |-> candidates, ord |-> cascade.ord, stack |-> cascade.stack,
     mode |-> cascade.mode, ret |-> cascade.ret]

Entered(b) == [board |-> b, undos |-> 0]

BeginSearch ==
    /\ pc = "ready"
    /\ last.op = "BruteForceSolver"
    /\ \E ord \in Orders :
         cascade' = [stack |-> <<>>, mode |-> "call", ret |-> "none", ord |-> ord,
                     entries |-> <<>>, entry |-> Entered(board)]
    /\ pc' = "search"
    /\ UNCHANGED <<puzzle, board, candidates, queue, cells_with_candidates, counter,
                   temperature, temperature_start, score, nops, last>>

Last(s) == s[Len(s)]

Searched(m) ==
    /\ board' = m.board
    /\ cascade' =
         [cascade EXCEPT
            !.stack = m.stack, !.mode = m.mode, !.ret = m.ret,
            !.entries = IF Len(m.stack) > Len(cascade.stack) THEN Append(@, Entered(board))
                        ELSE IF Len(m.stack) < Len(cascade.stack) THEN Pop(@)
                        ELSE IF cascade.mode = "return"
                        THEN SetTop(@, [Last(@) EXCEPT !.undos = @ + 1])
                        ELSE @,
            !.entry = IF Len(m.stack) < Len(cascade.stack) THEN Last(cascade.entries)
                      ELSE IF cascade.mode = "call" THEN Entered(board)
                      ELSE @]
    /\ last' = IF Len(m.stack) > Len(cascade.stack)
               THEN [last EXCEPT !.cell = Last(m.stack).cell]
               ELSE last

SearchStep ==
    /\ pc = "search"
    /\ ~BruteDone(SearchMachine)
    /\ \E m \in {BruteStep(SearchMachine)} : Searched(m)
    /\ UNCHANGED <<puzzle, candidates, queue, cells_with_candidates, counter, temperature,
                   temperature_start, score, pc, nops>>

SearchReturn ==
    /\ pc = "search"
    /\ BruteDone(SearchMachine)
    /\ last' = [last EXCEPT !.ret = cascade.ret]
    /\ pc' = "solved"
    /\ UNCHANGED <<puzzle, board, candidates, queue, cells_with_candidates, counter,
                   temperature, temperature_start, score, cascade, nops>>

NextSearch == InitBruteForce \/ BeginSearch \/ SearchStep \/ SearchReturn

SpecSearch == InitSearch /\ [][NextSearch]_vars

ZeroCells(b) == {s \in Cells : BoardAt(b, s) = 0}

C25_FailedSearchRestoresGrid ==
    /\ (pc = "search" /\ cascade.mode = "return" /\ cascade.ret = "false")
       => board = cascade.entry.board
    /\ (pc = "solved" /\ last.op = "BruteForceSolver" /\ last.ret = "false")
       => board = new(puzzle).grid

(* a call that placed digits, saw the recursive calls fail, undid the      *)
(* placements and returned false                                           *)
C25_Witness ==
    /\ pc = "search"
    /\ cascade.mode = "return"
    /\ cascade.ret = "false"
    /\ cascade.entry.undos > 1
    /\ board = cascade.entry.board

-----------------------------------------------------------------------------
(* Claims about CSPSolver::solve, under SpecSolve *)

(* C26: CSPSolver::solve returns false only when no valid complete grid    *)
(* agrees with the candidate domains it was entered with.                  *)
C26_CSPComplete ==
    [][(pc = "ready" /\ last.op = "CSPSolver" /\ pc' = "solved" /\ last'.ret = "false")
       => ~\E g \in KnownSolutions :
              /\ Full(GridBoard(g))
              /\ board_correct(GridBoard(g))
              /\ Consistent(g, candidates)]_vars

-----------------------------------------------------------------------------
(* Claims about the annealing loop, under SpecAnneal *)

(* no digit occurs more than 9 times in the puzzle *)
WithinQuota(p) == \A d \in Digits : digit_count(new(p).grid)[d] <= N

(* C27: for a puzzle in which no digit occurs more than 9 times, after     *)
(* the fill and after every iteration the board has no 0 entry and holds   *)
(* each digit exactly 9 times.                                             *)
C27_DigitQuota ==
    (pc \in {"anneal", "solved"} /\ WithinQuota(puzzle))
    => /\ Full(board)
       /\ \A d \in Digits : digit_count(board)[d] = N

(* a puzzle with blanks, filled, and a move that changed the board *)
C27_Witness ==
    /\ pc = "anneal"
    /\ nops > 0
    /\ WithinQuota(puzzle)
    /\ ~Full(new(puzzle).grid)
    /\ \E s \in Cells : /\ BoardAt(new(puzzle).grid, s) # 0
                        /\ BoardAt(board, s) # BoardAt(new(puzzle).grid, s)
    /\ \A d \in Digits : digit_count(board)[d] = N

(* the boards swap_random can give from b *)
Moves(b) ==
    {swap_random(b, SolverUnits(ord)[k], i, j) :
        ord \in Orders, k \in SwapUnits, i \in SwapIndices, j \in SwapIndices}

(* accept follows the Metropolis rule for the score change delta_s at      *)
(* temperature t                                                           *)
Metropolis(delta_s, t) ==
    /\ delta_s <= 0 => accept(delta_s, t) = {TRUE}
    /\ (delta_s > 0 /\ t > 0) => accept(delta_s, t) = {TRUE, FALSE}

(* C28: in every iteration a move that does not worsen the score is        *)
(* accepted, a worsening move is accepted for some draws and rejected for  *)
(* others at a positive temperature, and a rejected move leaves the board  *)
(* and the score as they were before the move.                             *)
C28_MetropolisAcceptance ==
    [][(pc = "anneal" /\ counter' = counter + 1)
       => /\ \A b2 \in Moves(board) :
                Metropolis(StochasticSolver_score(b2) - score, temperature)
          /\ \/ board' = board /\ score' = score
             \/ board' \in Moves(board) /\ score' = StochasticSolver_score(board')]_vars

(* C29: each call of solve has the whole budget of moves: its loop starts  *)
(* with the counter at 0 and the temperature at its starting value, and    *)
(* the call returns only with the perfect score or after IterCap moves of  *)
(* its own (nops counts the moves of the call).                            *)
C29_FullBudgetEachCall ==
    /\ (pc = "anneal" /\ nops = 0) => (counter = 0 /\ temperature = temperature_start)
    /\ (pc = "solved" /\ last.op = "StochasticSolver")
       => (score = PerfectScore \/ nops >= IterCap)

(* the cells given in the puzzle hold their digit in board b *)
GivensKept(p, b) ==
    \A s \in Cells : BoardAt(new(p).grid, s) # 0 => BoardAt(b, s) = BoardAt(new(p).grid, s)

(* C30: StochasticSolver::solve never changes a given: after the fill,     *)
(* after every iteration and at return every cell given in the puzzle      *)
(* holds its digit.                                                        *)
C30_GivensNeverChanged ==
    (pc \in {"anneal", "solved"} /\ last.op = "StochasticSolver") => GivensKept(puzzle, board)

====
